---- MODULE Spec2Model ----
(***************************************************************************)
(* Claims-data aggregation and metrics pipeline of src/utils/dataProcessor *)
(* .js: validateMAAClaims, preprocessMAAClaims, groupDataByTID and         *)
(* calculateProposalMetrics, each a pure function applied by one action to *)
(* an input drawn in the initial state.                                    *)
(*                                                                         *)
(* JavaScript values are tagged records.  Text is a tuple of one-character *)
(* strings, so that includes(), replace() and the parsers are computed     *)
(* character by character.  A number is an exact fraction n/d in lowest    *)
(* terms (d > 0); the model does not round, so sums are exact where the    *)
(* program's are exact up to floating-point tolerance.  A Date is the      *)
(* number of minutes since 2025-01-01 00:00 local time.                    *)
(***************************************************************************)
EXTENDS Integers, Sequences, FiniteSets, TLC

VARIABLES data, pc, validation, processedData, groupedData, metrics,
          roiProjections, result,
          browserInstance, browsers, calls, files, requests, pool

vars == <<data, pc, validation, processedData, groupedData, metrics,
          roiProjections, result,
          browserInstance, browsers, calls, files, requests, pool>>

\* the state of the data processor
processorVars == <<data, pc, validation, processedData, groupedData, metrics,
                   roiProjections, result>>

\* the state of the PDF generator, of the routes and of the database
serviceVars == <<browserInstance, browsers, calls, files, requests, pool>>

(* JavaScript values *)

Undefined == [t |-> "undefined"]
Null == [t |-> "null"]
Str(s) == [t |-> "string", s |-> s]
\* an array with the elements items[1], items[2], ...
Arr(items) == [t |-> "array", items |-> items]

Abs(i) == IF i < 0 THEN -i ELSE i

RECURSIVE GCD(_, _)
GCD(a, b) == IF b = 0 THEN a ELSE GCD(b, a % b)

\* the number n/d, d > 0, in lowest terms
Num(n, d) ==
  LET g == GCD(Abs(n), d)
  IN  [t |-> "number", n |-> n \div g, d |-> d \div g]

Zero == Num(0, 1)
Int2Num(i) == Num(i, 1)

IsNum(v) == v.t = "number"
IsStr(v) == v.t = "string"
IsDate(v) == v.t = "date"

\* the value of 0/0 and of parseFloat on text that holds no number
NaN == [t |-> "NaN"]

\* arithmetic on numbers; NaN in, NaN out
RAdd(x, y) == IF ~IsNum(x) \/ ~IsNum(y) THEN NaN
              ELSE Num(x.n * y.d + y.n * x.d, x.d * y.d)
RSub(x, y) == IF ~IsNum(x) \/ ~IsNum(y) THEN NaN
              ELSE Num(x.n * y.d - y.n * x.d, x.d * y.d)
\* common factors are cancelled before the products are formed
RMul(x, y) == IF ~IsNum(x) \/ ~IsNum(y) THEN NaN
              ELSE LET g == GCD(Abs(x.n), y.d)
                       h == GCD(Abs(y.n), x.d)
                   IN  Num((x.n \div g) * (y.n \div h), (x.d \div h) * (y.d \div g))
\* x / y; 0 / 0 is NaN and any other x / 0 an infinity, to which the program
\* applies no further arithmetic
RDiv(x, y) == IF ~IsNum(x) \/ ~IsNum(y) THEN NaN
              ELSE IF y.n > 0 THEN RMul(x, [t |-> "number", n |-> y.d, d |-> y.n])
              ELSE IF y.n < 0 THEN RMul(x, [t |-> "number", n |-> -y.d, d |-> -y.n])
              ELSE IF x.n = 0 THEN NaN
              ELSE [t |-> "Infinity", negative |-> x.n < 0]
\* x < y, false when either is NaN
RLess(x, y) == /\ IsNum(x) /\ IsNum(y)
               /\ LET g == GCD(x.d, y.d)
                  IN  x.n * (y.d \div g) < y.n * (x.d \div g)
\* Math.max and Math.min
RMax(x, y) == IF ~IsNum(x) \/ ~IsNum(y) THEN NaN ELSE IF RLess(x, y) THEN y ELSE x
RMin(x, y) == IF ~IsNum(x) \/ ~IsNum(y) THEN NaN ELSE IF RLess(y, x) THEN y ELSE x

\* ToBoolean
Truthy(v) ==
  CASE v.t = "undefined" -> FALSE
    [] v.t = "null" -> FALSE
    [] v.t = "string" -> v.s # <<>>
    [] v.t = "number" -> v.n # 0
    [] v.t = "NaN" -> FALSE
    [] OTHER -> TRUE

\* row[col] on a plain record object: undefined when the key is absent
Get(row, col) == IF col \in DOMAIN row THEN row[col] ELSE Undefined

(* parseNumber, dataProcessor.js 6-10 *)

DigitChars == {"0", "1", "2", "3", "4", "5", "6", "7", "8", "9"}

DigitVal(c) ==
  CASE c = "0" -> 0 [] c = "1" -> 1 [] c = "2" -> 2 [] c = "3" -> 3
    [] c = "4" -> 4 [] c = "5" -> 5 [] c = "6" -> 6 [] c = "7" -> 7
    [] c = "8" -> 8 [] c = "9" -> 9

\* the characters the regular expression /[^0-9.-]/g leaves in place
KeptChars == DigitChars \cup {".", "-"}

IsKept(c) == c \in KeptChars

\* number of consecutive decimal digits of s starting at position i
RECURSIVE DigitRun(_, _)
DigitRun(s, i) ==
  IF i <= Len(s) /\ s[i] \in DigitChars THEN 1 + DigitRun(s, i + 1) ELSE 0

\* value of the k decimal digits of s that start at position i
RECURSIVE DigitsValue(_, _, _)
DigitsValue(s, i, k) ==
  IF k = 0 THEN 0
  ELSE DigitsValue(s, i, k - 1) * 10 + DigitVal(s[i + k - 1])

RECURSIVE Pow10(_)
Pow10(k) == IF k = 0 THEN 1 ELSE 10 * Pow10(k - 1)

\* parseFloat on text made of digits, '.' and '-': the longest prefix that
\* is a decimal literal (optional '-', digits, optional '.', digits), NaN
\* when no prefix is one
parseFloat(s) ==
  LET neg == Len(s) >= 1 /\ s[1] = "-"
      i0 == IF neg THEN 2 ELSE 1
      ki == DigitRun(s, i0)
      dot == i0 + ki <= Len(s) /\ s[i0 + ki] = "."
      kf == IF dot THEN DigitRun(s, i0 + ki + 1) ELSE 0
      mag == DigitsValue(s, i0, ki) * Pow10(kf) + DigitsValue(s, i0 + ki + 1, kf)
  IN  IF ki + kf = 0 THEN NaN
      ELSE Num(IF neg THEN -mag ELSE mag, Pow10(kf))

\* slip: the text is parsed as it stands, no character removed
parseNumberWithoutCleaning(value) ==
  IF ~Truthy(value) THEN Zero
  ELSE LET f == parseFloat(value.s)
       IN  IF ~Truthy(f) THEN Zero ELSE f

parseNumber(value) ==
  IF ~Truthy(value) THEN Zero
  ELSE LET cleaned == SelectSeq(value.s, IsKept)
           f == parseFloat(cleaned)
       IN  IF ~Truthy(f) THEN Zero ELSE f

(* validateMAAClaims, dataProcessor.js 65-90 *)

requiredColumns ==
  <<"TID", "Patient Name", "Hospital Name", "Status", "Pkg Rate", "Approved Amount">>

\* Array.prototype.join
RECURSIVE Join(_, _)
Join(xs, sep) ==
  IF xs = <<>> THEN ""
  ELSE IF Len(xs) = 1 THEN xs[1]
  ELSE xs[1] \o sep \o Join(Tail(xs), sep)

\* slip: find() in place of filter(), so only the first missing column is kept
missingColumnsFirstOnly(sampleRow) ==
  LET Missing(col) == col \notin DOMAIN sampleRow
      all == SelectSeq(requiredColumns, Missing)
  IN  IF all = <<>> THEN <<>> ELSE <<all[1]>>

\* requiredColumns.filter(col => !(col in sampleRow))
missingColumnsOf(sampleRow) ==
  LET Missing(col) == col \notin DOMAIN sampleRow
  IN  SelectSeq(requiredColumns, Missing)

\* slip: no empty-input branch; an empty sheet is reported as lacking every
\* required column
validateWithoutEmptyCheck(d) ==
  LET missingColumns == IF ~Truthy(d) \/ Len(d.items) = 0 THEN requiredColumns
                        ELSE missingColumnsOf(d.items[1])
  IN  IF Len(missingColumns) > 0
      THEN [valid |-> FALSE,
            error |-> "Missing required columns: " \o Join(missingColumns, ", ")]
      ELSE [valid |-> TRUE]

validateMAAClaims(d) ==
  IF ~Truthy(d) \/ Len(d.items) = 0
  THEN [valid |-> FALSE, error |-> "No data found"]
  ELSE LET missingColumns == missingColumnsOf(d.items[1])
       IN  IF Len(missingColumns) > 0
           THEN [valid |-> FALSE,
                 error |-> "Missing required columns: " \o Join(missingColumns, ", ")]
           ELSE [valid |-> TRUE]

(* Inputs of the validation specification: the parsed sheet is absent, or a
   sequence of record objects.  validateMAAClaims reads only which keys a
   record has, so the records differ in their key sets. *)

MaxValidateRows == 2

Cell == Str(<<"x">>)

RequiredSet == {requiredColumns[i] : i \in 1..Len(requiredColumns)}

\* every record also has a column that is not a required one
KeyedRows == {[c \in cols \cup {"Pkg Code"} |-> Cell] : cols \in SUBSET RequiredSet}

RECURSIVE SeqsUpTo(_, _)
SeqsUpTo(S, n) ==
  IF n = 0 THEN {<<>>}
  ELSE LET shorter == SeqsUpTo(S, n - 1)
       IN  shorter \cup {Append(q, x) : q \in {r \in shorter : Len(r) = n - 1}, x \in S}

Unset == [t |-> "unset"]

\* no service is in use
ServicesUnset ==
  /\ browserInstance = Unset
  /\ browsers = Unset
  /\ calls = Unset
  /\ files = Unset
  /\ requests = Unset
  /\ pool = Unset

InitValidate ==
  /\ data \in {Null} \cup {Arr(q) : q \in SeqsUpTo(KeyedRows, MaxValidateRows)}
  /\ pc = "start"
  /\ validation = Unset
  /\ processedData = Unset
  /\ groupedData = Unset
  /\ metrics = Unset
  /\ roiProjections = Unset
  /\ result = Unset
  /\ ServicesUnset

Validate ==
  /\ pc = "start"
  /\ validation' = validateMAAClaims(data)
  /\ pc' = "validated"
  /\ UNCHANGED <<data, processedData, groupedData, metrics, roiProjections, result>>
  /\ UNCHANGED serviceVars

NextValidate == Validate

SpecValidate == InitValidate /\ [][NextValidate]_vars

IsEmptyInput(d) == d = Null \/ Len(d.items) = 0

\* the names of the required columns absent from row, in the order TID,
\* Patient Name, Hospital Name, Status, Pkg Rate, Approved Amount, each but
\* the first preceded by a comma and a space
ListedAfter(list, col, row) ==
  IF col \in DOMAIN row THEN list
  ELSE IF list = "" THEN col
  ELSE list \o ", " \o col

MissingList(row) ==
  ListedAfter(ListedAfter(ListedAfter(ListedAfter(ListedAfter(ListedAfter("",
    "TID", row), "Patient Name", row), "Hospital Name", row), "Status", row),
    "Pkg Rate", row), "Approved Amount", row)

\* C8: on a non-empty input the result is {valid: true} exactly when the
\* first record has all six required columns; otherwise it is valid = false
\* with 'Missing required columns: ' followed by every missing column name
\* of the first record, comma-separated, in the order of the required list.
C8_ValidIffFirstRecordComplete ==
  (pc = "validated" /\ ~IsEmptyInput(data)) =>
    LET first == data.items[1]
    IN  /\ (validation.valid <=> RequiredSet \subseteq DOMAIN first)
        /\ validation.valid => validation = [valid |-> TRUE]
        /\ ~validation.valid =>
             validation.error = "Missing required columns: " \o MissingList(first)
        /\ (RequiredSet \ DOMAIN first = {"TID"}) =>
             validation.error = "Missing required columns: TID"

\* two records, the first lacking exactly TID and Status, the second complete
C8_Witness ==
  /\ pc = "validated"
  /\ data # Null
  /\ Len(data.items) = 2
  /\ RequiredSet \ DOMAIN data.items[1] = {"TID", "Status"}
  /\ RequiredSet \subseteq DOMAIN data.items[2]
  /\ validation = [valid |-> FALSE, error |-> "Missing required columns: TID, Status"]

\* C9: on an empty or absent input validation fails with an error that no
\* non-empty input yields as its missing-columns error.
C9_EmptyInputDistinctError ==
  (pc = "validated" /\ IsEmptyInput(data)) =>
    /\ validation = [valid |-> FALSE, error |-> "No data found"]
    /\ \A row \in KeyedRows :
         LET other == validateMAAClaims(Arr(<<row>>))
         IN  ~other.valid => other.error # validation.error

C9_Witness ==
  /\ pc = "validated"
  /\ data = Arr(<<>>)
  /\ validation.error = "No data found"

(* parseDate, dataProcessor.js 13-36.  A Date is [day, min]: whole days since
   2025-01-01 and the minute of that day, local time. *)

DateOf(dy, mn) == [t |-> "date", day |-> dy, min |-> mn]

LetterChars ==
  {"A", "B", "C", "D", "E", "F", "G", "H", "I", "J", "K", "L", "M", "N", "O", "P",
   "Q", "R", "S", "T", "U", "V", "W", "X", "Y", "Z",
   "a", "b", "c", "d", "e", "f", "g", "h", "i", "j", "k", "l", "m", "n", "o", "p",
   "q", "r", "s", "t", "u", "v", "w", "x", "y", "z"}

RECURSIVE LetterRun(_, _)
LetterRun(s, i) ==
  IF i <= Len(s) /\ s[i] \in LetterChars THEN 1 + LetterRun(s, i + 1) ELSE 0

RECURSIVE SpaceRun(_, _)
SpaceRun(s, i) ==
  IF i <= Len(s) /\ s[i] = " " THEN 1 + SpaceRun(s, i + 1) ELSE 0

\* number of spaces that end at position i, reading backwards
RECURSIVE SpaceRunBack(_, _)
SpaceRunBack(s, i) ==
  IF i >= 1 /\ s[i] = " " THEN 1 + SpaceRunBack(s, i - 1) ELSE 0

\* String.prototype.trim
Trim(s) ==
  LET a == SpaceRun(s, 1)
  IN  IF a = Len(s) THEN <<>>
      ELSE SubSeq(s, a + 1, Len(s) - SpaceRunBack(s, Len(s)))

\* the words of s, separated by runs of spaces
RECURSIVE Words(_)
Words(s) ==
  LET t == Trim(s)
      RECURSIVE WordLen(_)
      WordLen(i) == IF i <= Len(t) /\ t[i] # " " THEN 1 + WordLen(i + 1) ELSE 0
      k == WordLen(1)
  IN  IF t = <<>> THEN <<>>
      ELSE <<SubSeq(t, 1, k)>> \o Words(SubSeq(t, k + 1, Len(t)))

AllDigits(w) == w # <<>> /\ \A i \in 1..Len(w) : w[i] \in DigitChars

MonthNames ==
  << <<"J", "a", "n", "u", "a", "r", "y">>,
     <<"F", "e", "b", "r", "u", "a", "r", "y">>,
     <<"M", "a", "r", "c", "h">>,
     <<"A", "p", "r", "i", "l">>,
     <<"M", "a", "y">>,
     <<"J", "u", "n", "e">>,
     <<"J", "u", "l", "y">>,
     <<"A", "u", "g", "u", "s", "t">>,
     <<"S", "e", "p", "t", "e", "m", "b", "e", "r">>,
     <<"O", "c", "t", "o", "b", "e", "r">>,
     <<"N", "o", "v", "e", "m", "b", "e", "r">>,
     <<"D", "e", "c", "e", "m", "b", "e", "r">> >>

MonthIndex(w) ==
  IF \E i \in 1..12 : MonthNames[i] = w
  THEN CHOOSE i \in 1..12 : MonthNames[i] = w
  ELSE 0

DaysBeforeMonth == <<0, 31, 59, 90, 120, 151, 181, 212, 243, 273, 304, 334>>

IsLeap(y) == (y % 4 = 0 /\ y % 100 # 0) \/ y % 400 = 0

LeapsBefore(y) == ((y - 1) \div 4) - ((y - 1) \div 100) + ((y - 1) \div 400)

\* days from 2025-01-01 to day d of month m of year y
DaysFromEpoch(y, m, d) ==
  365 * (y - 2025) + (LeapsBefore(y) - LeapsBefore(2025))
    + DaysBeforeMonth[m] + (IF m > 2 /\ IsLeap(y) THEN 1 ELSE 0) + (d - 1)

\* minute of the day of 'H:MM' followed by an optional AM or PM; -1 when the
\* words are no time of day
TimeOfDay(ws) ==
  LET w == ws[1]
      kh == DigitRun(w, 1)
      km == DigitRun(w, kh + 2)
      shaped == /\ kh \in {1, 2}
                /\ kh + 1 <= Len(w) /\ w[kh + 1] = ":"
                /\ km = 2 /\ Len(w) = kh + 3
      h == DigitsValue(w, 1, kh)
      m == DigitsValue(w, kh + 2, 2)
      half == IF Len(ws) = 2 THEN ws[2] ELSE <<>>
  IN  IF ~shaped \/ m > 59 THEN -1
      ELSE IF Len(ws) = 1 THEN (IF h > 23 THEN -1 ELSE h * 60 + m)
      ELSE IF half = <<"A", "M">> THEN (IF h > 12 THEN -1 ELSE (h % 12) * 60 + m)
      ELSE IF half = <<"P", "M">> THEN (IF h > 12 THEN -1 ELSE ((h % 12) + 12) * 60 + m)
      ELSE -1

\* new Date(text) for text of the form 'D Month YYYY', optionally followed by
\* 'H:MM' and AM or PM, read as local time; Null stands for an Invalid Date.
\* Every other text is an Invalid Date here.
NewDate(text) ==
  LET ws == Words(text)
      n == Len(ws)
      shaped == /\ n \in 3..5
                /\ AllDigits(ws[1]) /\ Len(ws[1]) <= 2
                /\ MonthIndex(ws[2]) # 0
                /\ AllDigits(ws[3]) /\ Len(ws[3]) = 4
      d == DigitsValue(ws[1], 1, Len(ws[1]))
      y == DigitsValue(ws[3], 1, 4)
      tod == IF n = 3 THEN 0 ELSE TimeOfDay(SubSeq(ws, 4, n))
  IN  IF ~shaped THEN Null
      ELSE IF d < 1 \/ d > 31 \/ tod < 0 THEN Null
      ELSE DateOf(DaysFromEpoch(y, MonthIndex(ws[2]), d), tod)

\* trimmed.match(/^(\d{1,2}),([A-Za-z]+)\s*,\s*(\d{4})\s*(.*)$/)
customMatchOf(trimmed) ==
  LET kd == DigitRun(trimmed, 1)
      im == kd + 2
      km == LetterRun(trimmed, im)
      ic == im + km + SpaceRun(trimmed, im + km)
      iy == ic + 1 + SpaceRun(trimmed, ic + 1)
      ir == iy + 4 + SpaceRun(trimmed, iy + 4)
      ok == /\ kd \in {1, 2}
            /\ kd + 1 <= Len(trimmed) /\ trimmed[kd + 1] = ","
            /\ km >= 1
            /\ ic <= Len(trimmed) /\ trimmed[ic] = ","
            /\ DigitRun(trimmed, iy) >= 4
  IN  IF ~ok THEN [ok |-> FALSE]
      ELSE [ok |-> TRUE,
            day |-> SubSeq(trimmed, 1, kd),
            month |-> SubSeq(trimmed, im, im + km - 1),
            year |-> SubSeq(trimmed, iy, iy + 3),
            rest |-> SubSeq(trimmed, ir, Len(trimmed))]

\* slip: text that is no date is handed back as it is
parseDateKeepingText(dateString) ==
  IF ~Truthy(dateString) THEN Null
  ELSE IF IsDate(dateString) THEN dateString
  ELSE IF ~IsStr(dateString) THEN Null
  ELSE LET trimmed == Trim(dateString.s)
           customMatch == customMatchOf(trimmed)
           time == IF customMatch.rest # <<>> THEN customMatch.rest
                   ELSE <<"0", "0", ":", "0", "0", " ", "A", "M">>
           reformatted == customMatch.day \o <<" ">> \o customMatch.month \o <<" ">>
                            \o customMatch.year \o <<" ">> \o time
       IN  IF trimmed = <<>> THEN Null
           ELSE IF customMatch.ok /\ NewDate(reformatted) # Null
                THEN NewDate(reformatted)
           ELSE IF NewDate(trimmed) # Null THEN NewDate(trimmed)
           ELSE dateString

parseDate(dateString) ==
  IF ~Truthy(dateString) THEN Null
  ELSE IF IsDate(dateString) THEN dateString
  ELSE IF ~IsStr(dateString) THEN Null
  ELSE LET trimmed == Trim(dateString.s)
           customMatch == customMatchOf(trimmed)
           time == IF customMatch.rest # <<>> THEN customMatch.rest
                   ELSE <<"0", "0", ":", "0", "0", " ", "A", "M">>
           reformatted == customMatch.day \o <<" ">> \o customMatch.month \o <<" ">>
                            \o customMatch.year \o <<" ">> \o time
       IN  IF trimmed = <<>> THEN Null
           ELSE IF customMatch.ok /\ NewDate(reformatted) # Null
                THEN NewDate(reformatted)
           ELSE NewDate(trimmed)

(* preprocessMAAClaims, dataProcessor.js 93-126 *)

\* String.prototype.includes
Includes(s, sub) ==
  \E i \in 0..(Len(s) - Len(sub)) : SubSeq(s, i + 1, i + Len(sub)) = sub

ClaimPaid == <<"C", "l", "a", "i", "m", " ", "P", "a", "i", "d">>

MinutesPerDay == 1440

\* Math.floor((later - earlier) / (1000 * 60 * 60 * 24))
DaysBetween(later, earlier) ==
  (later.day - earlier.day) + ((later.min - earlier.min) \div MinutesPerDay)

\* slip: the difference of the dates is not clamped at 0
daysToPaymentUnclamped(row, discharge, payment) ==
  IF Truthy(Get(row, "Days to Payment"))
  THEN parseNumber(Get(row, "Days to Payment"))
  ELSE IF Truthy(discharge) /\ Truthy(payment)
  THEN Int2Num(DaysBetween(payment, discharge))
  ELSE Zero

\* lines 107-116; discharge and payment are the parsed dates of the row
daysToPayment(row, discharge, payment) ==
  IF Truthy(Get(row, "Days to Payment"))
  THEN parseNumber(Get(row, "Days to Payment"))
  ELSE IF Truthy(discharge) /\ Truthy(payment)
  THEN LET daysDiff == Int2Num(DaysBetween(payment, discharge))
       IN  RMax(Zero, daysDiff)
  ELSE Zero

ProcessedColumns ==
  {"Pkg Rate", "Approved Amount", "Query Raised", "Date of Admission",
   "Date of Discharge", "Payment Date", "Days to Payment", "Actual Paid Amount"}

\* the callback of data.map
preprocessRow(row) ==
  LET pkgRate == parseNumber(Get(row, "Pkg Rate"))
      approved == parseNumber(Get(row, "Approved Amount"))
      query == parseNumber(IF Truthy(Get(row, "Query Raised"))
                           THEN Get(row, "Query Raised") ELSE Str(<<"0">>))
      admission == parseDate(Get(row, "Date of Admission"))
      discharge == parseDate(Get(row, "Date of Discharge"))
      payment == parseDate(Get(row, "Payment Date"))
      status == Get(row, "Status")
  IN  [c \in DOMAIN row \cup ProcessedColumns |->
        CASE c = "Pkg Rate" -> pkgRate
          [] c = "Approved Amount" -> approved
          [] c = "Query Raised" -> query
          [] c = "Date of Admission" -> admission
          [] c = "Date of Discharge" -> discharge
          [] c = "Payment Date" -> payment
          [] c = "Days to Payment" -> daysToPayment(row, discharge, payment)
          [] c = "Actual Paid Amount" ->
               IF Truthy(status) /\ Includes(status.s, ClaimPaid) THEN approved ELSE Zero
          [] OTHER -> row[c]]

preprocessMAAClaims(d) ==
  Arr([i \in 1..Len(d.items) |-> preprocessRow(d.items[i])])

(* groupDataByTID, dataProcessor.js 129-167.  The accumulator {} is a list of
   its own properties in insertion order, entries[i] = [key, value]; the
   properties it inherits from Object.prototype are ObjectPrototypeKeys. *)

ObjectPrototypeKeys ==
  { <<"c", "o", "n", "s", "t", "r", "u", "c", "t", "o", "r">>,
    <<"_", "_", "p", "r", "o", "t", "o", "_", "_">>,
    <<"h", "a", "s", "O", "w", "n", "P", "r", "o", "p", "e", "r", "t", "y">>,
    <<"i", "s", "P", "r", "o", "t", "o", "t", "y", "p", "e", "O", "f">>,
    <<"p", "r", "o", "p", "e", "r", "t", "y", "I", "s", "E", "n", "u", "m", "e", "r", "a", "b", "l", "e">>,
    <<"t", "o", "L", "o", "c", "a", "l", "e", "S", "t", "r", "i", "n", "g">>,
    <<"t", "o", "S", "t", "r", "i", "n", "g">>,
    <<"v", "a", "l", "u", "e", "O", "f">>,
    <<"_", "_", "d", "e", "f", "i", "n", "e", "G", "e", "t", "t", "e", "r", "_", "_">>,
    <<"_", "_", "d", "e", "f", "i", "n", "e", "S", "e", "t", "t", "e", "r", "_", "_">>,
    <<"_", "_", "l", "o", "o", "k", "u", "p", "G", "e", "t", "t", "e", "r", "_", "_">>,
    <<"_", "_", "l", "o", "o", "k", "u", "p", "S", "e", "t", "t", "e", "r", "_", "_">> }

\* the error thrown by acc[tid].components.push when acc[tid] is inherited
TypeError == [t |-> "TypeError"]

HasOwn(entries, key) == \E i \in 1..Len(entries) : entries[i].key = key

IndexOfKey(entries, key) == CHOOSE i \in 1..Len(entries) : entries[i].key = key

\* slip: the seed keeps the first row's amounts, so that row is counted twice
seedClaimKeepingAmounts(row) ==
  [c \in DOMAIN row \cup {"components"} |->
    CASE c = "components" -> <<>>
      [] OTHER -> row[c]]

\* lines 136-143: the claim a TID's first row seeds
seedClaim(row) ==
  [c \in DOMAIN row \cup
         {"Pkg Rate", "Approved Amount", "Actual Paid Amount", "Query Raised", "components"} |->
    CASE c \in {"Pkg Rate", "Approved Amount", "Actual Paid Amount", "Query Raised"} -> Zero
      [] c = "components" -> <<>>
      [] OTHER -> row[c]]

\* slip: the approved amount of a component is read from Pkg Rate
componentOfRateTwice(row) ==
  [c \in {"Pkg Code", "Pkg Name", "Component Pkg Rate", "Component Approved Amount"} |->
    CASE c = "Pkg Code" -> Get(row, "Pkg Code")
      [] c = "Pkg Name" -> Get(row, "Pkg Name")
      [] c = "Component Pkg Rate" -> Get(row, "Pkg Rate")
      [] c = "Component Approved Amount" -> Get(row, "Pkg Rate")]

\* lines 147-152
componentOf(row) ==
  [c \in {"Pkg Code", "Pkg Name", "Component Pkg Rate", "Component Approved Amount"} |->
    CASE c = "Pkg Code" -> Get(row, "Pkg Code")
      [] c = "Pkg Name" -> Get(row, "Pkg Name")
      [] c = "Component Pkg Rate" -> Get(row, "Pkg Rate")
      [] c = "Component Approved Amount" -> Get(row, "Approved Amount")]

\* slip: Query Raised is summed like the amounts
accumulateSummingQuery(claim, row) ==
  [claim EXCEPT
    !["components"] = Append(@, componentOf(row)),
    !["Pkg Rate"] = RAdd(@, row["Pkg Rate"]),
    !["Approved Amount"] = RAdd(@, row["Approved Amount"]),
    !["Actual Paid Amount"] = RAdd(@, row["Actual Paid Amount"]),
    !["Query Raised"] = RAdd(@, row["Query Raised"]),
    !["Days to Payment"] = RMax(@, row["Days to Payment"])]

\* lines 146-161: one row added to its claim
accumulate(claim, row) ==
  [claim EXCEPT
    !["components"] = Append(@, componentOf(row)),
    !["Pkg Rate"] = RAdd(@, row["Pkg Rate"]),
    !["Approved Amount"] = RAdd(@, row["Approved Amount"]),
    !["Actual Paid Amount"] = RAdd(@, row["Actual Paid Amount"]),
    !["Query Raised"] = RMax(@, row["Query Raised"]),
    !["Days to Payment"] = RMax(@, row["Days to Payment"])]

\* the callback of data.reduce; acc.threw records that a row has thrown
groupStep(acc, row) ==
  LET tid == Get(row, "TID")
      key == tid.s
      seeded == IF HasOwn(acc.entries, key) THEN acc.entries
                ELSE Append(acc.entries, [key |-> key, value |-> seedClaim(row)])
      i == IndexOfKey(seeded, key)
  IN  IF acc.threw \/ ~Truthy(tid) THEN acc
      ELSE IF ~HasOwn(acc.entries, key) /\ key \in ObjectPrototypeKeys
      THEN [acc EXCEPT !.threw = TRUE]
      ELSE [acc EXCEPT !.entries =
              [seeded EXCEPT ![i] = [key |-> key, value |-> accumulate(seeded[i].value, row)]]]

RECURSIVE reduce(_, _)
reduce(rows, acc) ==
  IF rows = <<>> THEN acc ELSE reduce(Tail(rows), groupStep(acc, Head(rows)))

\* a canonical array index: decimal digits without a leading zero, at most
\* 2^32 - 2
MaxIndexText == <<"4", "2", "9", "4", "9", "6", "7", "2", "9", "4">>

RECURSIVE DigitsLess(_, _)
DigitsLess(a, b) ==
  IF a = <<>> THEN FALSE
  ELSE IF a[1] # b[1] THEN DigitVal(a[1]) < DigitVal(b[1])
  ELSE DigitsLess(Tail(a), Tail(b))

\* a < b for canonical digit strings
IndexLess(a, b) == Len(a) < Len(b) \/ (Len(a) = Len(b) /\ DigitsLess(a, b))

IsArrayIndex(k) ==
  /\ AllDigits(k)
  /\ Len(k) = 1 \/ k[1] # "0"
  /\ ~IndexLess(MaxIndexText, k)

\* the entries whose keys are array indices, in ascending numeric order
RECURSIVE IndexEntriesAscending(_)
IndexEntriesAscending(entries) ==
  LET IsIndexEntry(e) == IsArrayIndex(e.key)
      idx == SelectSeq(entries, IsIndexEntry)
      least == CHOOSE i \in 1..Len(idx) :
                 \A j \in 1..Len(idx) : ~IndexLess(idx[j].key, idx[i].key)
      NotLeast(e) == e.key # idx[least].key
  IN  IF idx = <<>> THEN <<>>
      ELSE <<idx[least]>> \o IndexEntriesAscending(SelectSeq(idx, NotLeast))

\* Object.values: integer keys first, ascending, then the other keys in
\* insertion order
ObjectValues(entries) ==
  LET IsNamedEntry(e) == ~IsArrayIndex(e.key)
      ordered == IndexEntriesAscending(entries) \o SelectSeq(entries, IsNamedEntry)
  IN  [i \in 1..Len(ordered) |-> ordered[i].value]

groupDataByTID(d) ==
  LET groupedByTID == reduce(d.items, [threw |-> FALSE, entries |-> <<>>])
  IN  IF groupedByTID.threw THEN TypeError
      ELSE Arr(ObjectValues(groupedByTID.entries))

(* Inputs of the aggregation specification: raw rows as the sheet reader
   delivers them (text cells, an empty cell being an absent key), which
   preprocessMAAClaims normalizes before groupDataByTID groups them. *)

MaxGroupRows == 3

Field(col, text) == col :> Str(text)

PaidRow ==
  Field("Patient Name", <<"A", "s", "h", "a">>)
    @@ Field("Hospital Name", <<"C", "i", "t", "y">>)
    @@ Field("Status", ClaimPaid)
    @@ Field("Pkg Code", <<"P", "K", "G", "-", "A">>)
    @@ Field("Pkg Name", <<"K", "n", "e", "e">>)
    @@ Field("Pkg Rate", <<"1", "0">>)
    @@ Field("Approved Amount", <<"7">>)
    @@ Field("Query Raised", <<"2">>)
    @@ Field("Days to Payment", <<"3">>)

PendingRow ==
  Field("Patient Name", <<"A", "s", "h", "a">>)
    @@ Field("Hospital Name", <<"C", "i", "t", "y">>)
    @@ Field("Status", <<"P", "e", "n", "d", "i", "n", "g">>)
    @@ Field("Pkg Code", <<"P", "K", "G", "-", "B">>)
    @@ Field("Pkg Name", <<"H", "i", "p">>)
    @@ Field("Pkg Rate", <<"2", "0", ".", "5">>)
    @@ Field("Approved Amount", <<"-", "4">>)
    @@ Field("Query Raised", <<"-", "1">>)
    @@ Field("Days to Payment", <<"-", "6">>)

\* a row whose optional cells are empty
SparseRow ==
  Field("Patient Name", <<"A", "s", "h", "a">>)
    @@ Field("Hospital Name", <<"C", "i", "t", "y">>)
    @@ Field("Status", ClaimPaid)
    @@ Field("Pkg Rate", <<"1", ",", "0", "0", ",", "0", "0", "1">>)
    @@ Field("Approved Amount", <<"1">>)

GroupProfiles == {PaidRow, PendingRow, SparseRow}

TIDTexts ==
  { <<>>, <<"5">>, <<"3">>, <<"T", "1">>,
    <<"c", "o", "n", "s", "t", "r", "u", "c", "t", "o", "r">> }

GroupRows ==
  GroupProfiles \cup {Field("TID", tid) @@ p : tid \in TIDTexts, p \in GroupProfiles}

InitGroup ==
  /\ data \in {Arr(q) : q \in SeqsUpTo(GroupRows, MaxGroupRows)}
  /\ pc = "start"
  /\ validation = Unset
  /\ processedData = Unset
  /\ groupedData = Unset
  /\ metrics = Unset
  /\ roiProjections = Unset
  /\ result = Unset
  /\ ServicesUnset

Preprocess ==
  /\ pc = "start"
  /\ processedData' = preprocessMAAClaims(data)
  /\ pc' = "preprocessed"
  /\ UNCHANGED <<data, validation, groupedData, metrics, roiProjections, result>>
  /\ UNCHANGED serviceVars

Group ==
  /\ pc = "preprocessed"
  /\ groupedData' = groupDataByTID(processedData)
  /\ pc' = "grouped"
  /\ UNCHANGED <<data, validation, processedData, metrics, roiProjections, result>>
  /\ UNCHANGED serviceVars

NextGroup == Preprocess \/ Group

SpecGroup == InitGroup /\ [][NextGroup]_vars

(* What the claims about groupDataByTID speak of, stated over the input rows *)

HasTID(row) == Truthy(Get(row, "TID"))

\* the rows of the input that have a TID, in input order
RowsWithTID(rows) == SelectSeq(rows, HasTID)

\* the rows of the input whose TID is tid, in input order
RowsOf(rows, tid) ==
  LET Same(row) == HasTID(row) /\ row["TID"] = tid
  IN  SelectSeq(rows, Same)

\* the distinct TIDs of the input in the order in which they are first seen
RECURSIVE FirstSeen(_)
FirstSeen(rows) ==
  LET keyed == RowsWithTID(rows)
      Other(row) == row["TID"] # keyed[1]["TID"]
  IN  IF keyed = <<>> THEN <<>>
      ELSE <<keyed[1]["TID"]>> \o FirstSeen(SelectSeq(keyed, Other))

RECURSIVE SumOf(_, _)
SumOf(rows, col) ==
  IF rows = <<>> THEN Zero ELSE RAdd(rows[1][col], SumOf(Tail(rows), col))

\* the greatest value of col over a non-empty sequence of rows
MaxOf(rows, col) ==
  LET i == CHOOSE i \in 1..Len(rows) :
             \A j \in 1..Len(rows) : ~RLess(rows[i][col], rows[j][col])
  IN  rows[i][col]

Returned == pc = "grouped" /\ groupedData # TypeError

\* C1: whenever groupDataByTID returns, it returns exactly one Claim per
\* distinct TID of the input rows that have a TID, in the order in which the
\* TIDs are first seen in the input, whatever the TID values are.
C1_OneClaimPerTIDInFirstSeenOrder ==
  Returned =>
    LET tids == FirstSeen(processedData.items)
    IN  /\ Len(groupedData.items) = Len(tids)
        /\ \A i \in 1..Len(tids) : groupedData.items[i]["TID"] = tids[i]

RECURSIVE SumOfComponents(_)
SumOfComponents(components) ==
  IF components = <<>> THEN Zero
  ELSE RAdd(components[1]["Component Pkg Rate"], SumOfComponents(Tail(components)))

\* C2: the Pkg Rate of every Claim produced equals the sum of Component Pkg
\* Rate over the entries of its components list.
C2_PkgRateIsSumOfComponents ==
  Returned =>
    \A i \in 1..Len(groupedData.items) :
      LET claim == groupedData.items[i]
      IN  claim["Pkg Rate"] = SumOfComponents(claim["components"])

\* a Claim of three components whose rates are not all zero
C2_Witness ==
  /\ Returned
  /\ \E i \in 1..Len(groupedData.items) :
       LET claim == groupedData.items[i]
       IN  /\ Len(claim["components"]) = 3
           /\ claim["components"][1]["Component Pkg Rate"] = Num(41, 2)
           /\ claim["components"][2]["Component Pkg Rate"] = Int2Num(10)
           /\ claim["components"][3]["Component Pkg Rate"] = Num(41, 2)
           /\ claim["Pkg Rate"] = Int2Num(51)

\* C3: groupDataByTID raises on no row; a row with no TID is skipped, so the
\* result is the one obtained from the input with those rows removed.
C3_NeverRaisesAndSkipsRowsWithoutTID ==
  pc = "grouped" =>
    /\ groupedData # TypeError
    /\ groupedData = groupDataByTID(Arr(RowsWithTID(processedData.items)))

\* C4 as stated: Pkg Rate, Approved Amount and Actual Paid Amount of every
\* Claim are the sums of the field over the input rows with the Claim's TID;
\* Query Raised and Days to Payment are the maxima of the field over them.
C4_SumsAndMaximaOverRows ==
  Returned =>
    \A i \in 1..Len(groupedData.items) :
      LET claim == groupedData.items[i]
          rows == RowsOf(processedData.items, claim["TID"])
      IN  /\ claim["Pkg Rate"] = SumOf(rows, "Pkg Rate")
          /\ claim["Approved Amount"] = SumOf(rows, "Approved Amount")
          /\ claim["Actual Paid Amount"] = SumOf(rows, "Actual Paid Amount")
          /\ claim["Query Raised"] = MaxOf(rows, "Query Raised")
          /\ claim["Days to Payment"] = MaxOf(rows, "Days to Payment")

\* C4 (amended): as C4, except that Query Raised is the greater of 0 and the
\* maximum of the field over the rows with the Claim's TID.
C4_SumsAndMaximaFromZeroForQuery ==
  Returned =>
    \A i \in 1..Len(groupedData.items) :
      LET claim == groupedData.items[i]
          rows == RowsOf(processedData.items, claim["TID"])
      IN  /\ claim["Pkg Rate"] = SumOf(rows, "Pkg Rate")
          /\ claim["Approved Amount"] = SumOf(rows, "Approved Amount")
          /\ claim["Actual Paid Amount"] = SumOf(rows, "Actual Paid Amount")
          /\ claim["Query Raised"] = RMax(Zero, MaxOf(rows, "Query Raised"))
          /\ claim["Days to Payment"] = MaxOf(rows, "Days to Payment")

\* a Claim of two rows that both carry a negative Query Raised
C4_Witness ==
  /\ Returned
  /\ \E i \in 1..Len(groupedData.items) :
       LET claim == groupedData.items[i]
           rows == RowsOf(processedData.items, claim["TID"])
       IN  /\ Len(rows) = 2
           /\ \A j \in 1..2 : rows[j]["Query Raised"] = Int2Num(-1)
           /\ claim["Query Raised"] = Zero
           /\ claim["Days to Payment"] = Int2Num(-6)
           /\ claim["Pkg Rate"] = Int2Num(41)

\* C18: the components list of every Claim produced holds exactly one record
\* per input row with the Claim's TID, the seed row included, in input order,
\* and the record carries that row's Pkg Code, Pkg Name, Pkg Rate and Approved
\* Amount.
C18_OneComponentPerRowInOrder ==
  Returned =>
    \A i \in 1..Len(groupedData.items) :
      LET claim == groupedData.items[i]
          rows == RowsOf(processedData.items, claim["TID"])
      IN  /\ Len(claim["components"]) = Len(rows)
          /\ \A j \in 1..Len(rows) :
               LET component == claim["components"][j]
               IN  /\ DOMAIN component =
                        {"Pkg Code", "Pkg Name", "Component Pkg Rate",
                         "Component Approved Amount"}
                   /\ component["Pkg Code"] = Get(rows[j], "Pkg Code")
                   /\ component["Pkg Name"] = Get(rows[j], "Pkg Name")
                   /\ component["Component Pkg Rate"] = rows[j]["Pkg Rate"]
                   /\ component["Component Approved Amount"] = rows[j]["Approved Amount"]

\* two rows sharing TID 5, a paid one and then a pending one: one Claim whose
\* list has the two records in that order
C18_Witness ==
  /\ Returned
  /\ Len(processedData.items) = 2
  /\ Len(groupedData.items) = 1
  /\ LET claim == groupedData.items[1]
     IN  /\ claim["TID"] = Str(<<"5">>)
         /\ Len(claim["components"]) = 2
         /\ claim["components"][1]["Pkg Code"] = Str(<<"P", "K", "G", "-", "A">>)
         /\ claim["components"][1]["Component Approved Amount"] = Int2Num(7)
         /\ claim["components"][2]["Pkg Name"] = Str(<<"H", "i", "p">>)
         /\ claim["components"][2]["Component Pkg Rate"] = Num(41, 2)
         /\ claim["components"][2]["Component Approved Amount"] = Int2Num(-4)
         /\ claim["Pkg Rate"] = Num(61, 2)

(* Inputs of the normalization specification: rows that differ in the three
   cells Days to Payment is derived from. *)

MaxPreprocessRows == 2

\* ' 17,February , 2025 12:00 AM', the sheet's own date format
Feb17Midnight ==
  <<" ", "1", "7", ",", "F", "e", "b", "r", "u", "a", "r", "y", " ", ",", " ",
    "2", "0", "2", "5", " ", "1", "2", ":", "0", "0", " ", "A", "M">>

\* '20,February , 2025', the sheet's format without a time
Feb20 ==
  <<"2", "0", ",", "F", "e", "b", "r", "u", "a", "r", "y", " ", ",", " ",
    "2", "0", "2", "5">>

\* '16 February 2025 6:00 PM', a text only the fallback parse reads
Feb16Evening ==
  <<"1", "6", " ", "F", "e", "b", "r", "u", "a", "r", "y", " ", "2", "0", "2", "5",
    " ", "6", ":", "0", "0", " ", "P", "M">>

NotADate == <<"n", "/", "a">>

BaseRow == Field("TID", <<"5">>) @@ SparseRow

\* rows, and each of them extended by the cell col for each of the texts
WithCell(rows, col, texts) ==
  rows \cup {Field(col, text) @@ r : text \in texts, r \in rows}

\* every row has a discharge cell; the other two cells may be empty
PreprocessRows ==
  WithCell(
    WithCell(
      {Field("Date of Discharge", text) @@ BaseRow :
         text \in {NotADate, Feb17Midnight, Feb16Evening}},
      "Days to Payment", {<<"0">>, <<"1", "2">>, <<"a", "b", "c">>}),
    "Payment Date", {Feb20, Feb16Evening})

InitPreprocess ==
  /\ data \in {Arr(q) : q \in SeqsUpTo(PreprocessRows, MaxPreprocessRows)}
  /\ pc = "start"
  /\ validation = Unset
  /\ processedData = Unset
  /\ groupedData = Unset
  /\ metrics = Unset
  /\ roiProjections = Unset
  /\ result = Unset
  /\ ServicesUnset

NextPreprocess == Preprocess

SpecPreprocess == InitPreprocess /\ [][NextPreprocess]_vars

\* the text holds a number: what is left of it after the characters outside
\* [0-9.-] are removed starts with a decimal literal
IsNumericText(v) == IsStr(v) /\ parseFloat(SelectSeq(v.s, IsKept)) # NaN

\* whole days from discharge to payment, at least 0
ClampedWholeDays(discharge, payment) ==
  LET minutes == (payment.day - discharge.day) * MinutesPerDay
                   + (payment.min - discharge.min)
  IN  IF minutes < 0 THEN Zero ELSE Int2Num(minutes \div MinutesPerDay)

DerivedDays(row) ==
  LET discharge == parseDate(Get(row, "Date of Discharge"))
      payment == parseDate(Get(row, "Payment Date"))
  IN  IF discharge # Null /\ payment # Null
      THEN ClampedWholeDays(discharge, payment)
      ELSE Zero

\* C10 as stated: Days to Payment is the explicit value if it is present and
\* numeric; otherwise the whole days from Date of Discharge to Payment Date,
\* at least 0, when both parse; otherwise 0.
C10_ExplicitOnlyIfNumeric ==
  pc = "preprocessed" =>
    \A i \in 1..Len(data.items) :
      LET row == data.items[i]
          explicit == Get(row, "Days to Payment")
      IN  processedData.items[i]["Days to Payment"] =
            IF Truthy(explicit) /\ IsNumericText(explicit)
            THEN parseNumber(explicit)
            ELSE DerivedDays(row)

\* C10 (amended): Days to Payment is parseNumber of the explicit value
\* whenever that value is present (non-empty), hence 0 when it holds no
\* number, and is derived from the two dates only when it is absent or empty.
C10_ExplicitWheneverPresent ==
  pc = "preprocessed" =>
    \A i \in 1..Len(data.items) :
      LET row == data.items[i]
          explicit == Get(row, "Days to Payment")
      IN  processedData.items[i]["Days to Payment"] =
            IF Truthy(explicit)
            THEN (IF IsNumericText(explicit) THEN parseNumber(explicit) ELSE Zero)
            ELSE DerivedDays(row)

\* a row with the explicit value 'abc' and two dates three days apart, and a
\* row without explicit value whose payment precedes its discharge
C10_Witness ==
  /\ pc = "preprocessed"
  /\ Len(data.items) = 2
  /\ Get(data.items[1], "Days to Payment") = Str(<<"a", "b", "c">>)
  /\ processedData.items[1]["Date of Discharge"] = DateOf(47, 0)
  /\ processedData.items[1]["Payment Date"] = DateOf(50, 0)
  /\ processedData.items[1]["Days to Payment"] = Zero
  /\ "Days to Payment" \notin DOMAIN data.items[2]
  /\ processedData.items[2]["Date of Discharge"] = DateOf(47, 0)
  /\ processedData.items[2]["Payment Date"] = DateOf(46, 1080)
  /\ processedData.items[2]["Days to Payment"] = Zero

(* calculateProposalMetrics, dataProcessor.js 170-342 *)

RejectedSupervisor ==
  <<"C", "l", "a", "i", "m", " ", "R", "e", "j", "e", "c", "t", "e", "d", " ",
    "(", "S", "u", "p", "e", "r", "v", "i", "s", "o", "r", ")">>

RejectedAnalyser ==
  <<"C", "l", "a", "i", "m", " ", "R", "e", "j", "e", "c", "t", "e", "d", " ",
    "(", "A", "n", "a", "l", "y", "s", "e", "r", ")">>

UpperCase ==
  <<"A", "B", "C", "D", "E", "F", "G", "H", "I", "J", "K", "L", "M", "N", "O", "P",
    "Q", "R", "S", "T", "U", "V", "W", "X", "Y", "Z">>

LowerCase ==
  <<"a", "b", "c", "d", "e", "f", "g", "h", "i", "j", "k", "l", "m", "n", "o", "p",
    "q", "r", "s", "t", "u", "v", "w", "x", "y", "z">>

\* String.prototype.toLowerCase
toLowerCase(s) ==
  [i \in 1..Len(s) |->
    IF \E k \in 1..26 : UpperCase[k] = s[i]
    THEN LowerCase[CHOOSE k \in 1..26 : UpperCase[k] = s[i]]
    ELSE s[i]]

\* slip: the match ignores case
StatusIncludesAnyCase(row, text) ==
  Truthy(Get(row, "Status")) /\ Includes(toLowerCase(row["Status"].s), toLowerCase(text))

\* row['Status'] && row['Status'].includes(text)
StatusIncludes(row, text) ==
  Truthy(Get(row, "Status")) /\ Includes(row["Status"].s, text)

\* slip: the status is matched as written, without toLowerCase
StatusIncludesAsWritten(row, text) ==
  Truthy(Get(row, "Status")) /\ Includes(row["Status"].s, text)

\* row['Status'] && row['Status'].toLowerCase().includes(text)
StatusIncludesLower(row, text) ==
  Truthy(Get(row, "Status")) /\ Includes(toLowerCase(row["Status"].s), text)

\* the two exact rejected statuses, lines 189-192 and 217-220
IsRejected(row) ==
  /\ Truthy(Get(row, "Status"))
  /\ row["Status"].s = RejectedSupervisor \/ row["Status"].s = RejectedAnalyser

\* slip: a rate is computed without the guard on its denominator, so that
\* no claims give 0/0
unguardedPercentage(numer, denom) ==
  IF denom.n = 0 THEN NaN ELSE RMul(RDiv(numer, denom), Int2Num(100))

\* denom > 0 ? (numer / denom) * 100 : 0, lines 208-213, 223-225, 282-284
guardedPercentage(numer, denom) ==
  IF RLess(Zero, denom) THEN RMul(RDiv(numer, denom), Int2Num(100)) ELSE Zero

\* slip: the paid total is taken from the claims, by the status of each
\* claim's first row
totalPaidAmountOverClaims(processed, grouped) ==
  LET Paid(row) == StatusIncludes(row, ClaimPaid)
  IN  SumOf(SelectSeq(grouped, Paid), "Approved Amount")

\* lines 179-181
totalPaidAmountOf(processed, grouped) ==
  LET Paid(row) == StatusIncludes(row, ClaimPaid)
  IN  SumOf(SelectSeq(processed, Paid), "Approved Amount")

\* slip: the rejected amount is taken from the claims, by the status of each
\* claim's first row
rejectedClaimsAmountOverClaims(processed, grouped) ==
  SumOf(SelectSeq(grouped, IsRejected), "Pkg Rate")

\* lines 215-221
rejectedClaimsAmountOf(processed, grouped) ==
  SumOf(SelectSeq(processed, IsRejected), "Pkg Rate")

\* slip: the weighted sum is not capped
healthScoreUncapped(denialRate, collectionEfficiency, queryIncidence) ==
  RAdd(RAdd(RMul(RSub(Int2Num(100), denialRate), Num(4, 10)),
            RMul(collectionEfficiency, Num(4, 10))),
       RMul(RSub(Int2Num(100), queryIncidence), Num(2, 10)))

\* line 337
healthScoreOf(denialRate, collectionEfficiency, queryIncidence) ==
  RMin(Int2Num(90),
       RAdd(RAdd(RMul(RSub(Int2Num(100), denialRate), Num(4, 10)),
                 RMul(collectionEfficiency, Num(4, 10))),
            RMul(RSub(Int2Num(100), queryIncidence), Num(2, 10))))

\* Math.floor and Math.round of a number
Floor(x) == x.n \div x.d
Round(x) == Floor(RAdd(x, Num(1, 2)))

DateLess(a, b) == a.day < b.day \/ (a.day = b.day /\ a.min < b.min)

\* lines 244-254
avgLengthOfStayOf(grouped) ==
  LET WithDates(row) == Truthy(row["Date of Admission"]) /\ Truthy(row["Date of Discharge"])
      claimsWithDates == SelectSeq(grouped, WithDates)
      RECURSIVE Stay(_)
      Stay(rows) ==
        IF rows = <<>> THEN Zero
        ELSE LET los == Int2Num(DaysBetween(rows[1]["Date of Discharge"],
                                            rows[1]["Date of Admission"]))
             IN  RAdd(RMax(Zero, los), Stay(Tail(rows)))
  IN  IF Len(claimsWithDates) > 0
      THEN RDiv(Stay(claimsWithDates), Int2Num(Len(claimsWithDates)))
      ELSE Int2Num(4)

\* slip: the mean is taken over all claims, not only those with days above 0
avgDaysToPaymentOverAllClaims(grouped, avgLengthOfStay) ==
  IF Len(grouped) > 0
  THEN RDiv(SumOf(grouped, "Days to Payment"), Int2Num(Len(grouped)))
  ELSE IF Truthy(avgLengthOfStay) THEN avgLengthOfStay ELSE Int2Num(45)

\* lines 256-260
avgDaysToPaymentOf(grouped, avgLengthOfStay) ==
  LET WithDays(row) == Truthy(row["Days to Payment"]) /\ RLess(Zero, row["Days to Payment"])
      claimsWithPaymentDays == SelectSeq(grouped, WithDays)
  IN  IF Len(claimsWithPaymentDays) > 0
      THEN RDiv(SumOf(claimsWithPaymentDays, "Days to Payment"),
                Int2Num(Len(claimsWithPaymentDays)))
      ELSE IF Truthy(avgLengthOfStay) THEN avgLengthOfStay ELSE Int2Num(45)

\* lines 262-278: the earliest and latest admission dates of the rows, and
\* the months they span
admissionDatesOf(processed) ==
  LET Dated(row) == IsDate(row["Date of Admission"])
      dated == SelectSeq(processed, Dated)
  IN  [i \in 1..Len(dated) |-> dated[i]["Date of Admission"]]

RECURSIVE minDateOf(_, _)
minDateOf(dates, min) ==
  IF dates = <<>> THEN min
  ELSE minDateOf(Tail(dates), IF DateLess(dates[1], min) THEN dates[1] ELSE min)

RECURSIVE maxDateOf(_, _)
maxDateOf(dates, max) ==
  IF dates = <<>> THEN max
  ELSE maxDateOf(Tail(dates), IF DateLess(max, dates[1]) THEN dates[1] ELSE max)

monthsSpanOf(minDate, maxDate) ==
  LET minutes == (maxDate.day - minDate.day) * MinutesPerDay + (maxDate.min - minDate.min)
      months == -((-minutes) \div (MinutesPerDay * 30))
  IN  IF Truthy(minDate) /\ Truthy(maxDate)
      THEN (IF months > 1 THEN months ELSE 1)
      ELSE 12

\* the snapshot for the normalized rows and the claims grouped from them
snapshotOf(processedRows, groupedRows) ==
  LET Paid(row) == StatusIncludes(row, ClaimPaid)
      Pending(row) == StatusIncludes(row, <<"P", "e", "n", "d", "i", "n", "g">>)
      Approved(row) == StatusIncludes(row, <<"A", "p", "p", "r", "o", "v", "e", "d">>)
      Queried(row) == RLess(Zero, row["Query Raised"])
      Unqueried(row) == row["Query Raised"] = Zero
      ApprovedUnpaid(row) ==
        /\ StatusIncludesLower(row, <<"a", "p", "p", "r", "o", "v", "e", "d">>)
        /\ StatusIncludesLower(row, <<"s", "u", "p", "e", "r", "v", "i", "s", "o", "r">>)
      StuckInQuery(row) ==
        StatusIncludesLower(row, <<"c", "l", "a", "i", "m", " ", "q", "u", "e", "r", "y">>)
      HighValue(row) == RLess(Int2Num(100000), row["Pkg Rate"])
      totalClaims == Len(groupedRows)
      totalClaimValue == SumOf(groupedRows, "Pkg Rate")
      totalApprovedAmount == SumOf(groupedRows, "Approved Amount")
      totalPaidAmount == totalPaidAmountOf(processedRows, groupedRows)
      paidClaims == Len(SelectSeq(groupedRows, Paid))
      rejectedClaims == Len(SelectSeq(groupedRows, IsRejected))
      pendingClaims == Len(SelectSeq(groupedRows, Pending))
      approvedClaims == Len(SelectSeq(groupedRows, Approved))
      claimsWithQuery == Len(SelectSeq(groupedRows, Queried))
      claimsWithoutQuery == Len(SelectSeq(groupedRows, Unqueried))
      denialRate == guardedPercentage(Int2Num(rejectedClaims), Int2Num(totalClaims))
      queryIncidence == guardedPercentage(Int2Num(claimsWithQuery), Int2Num(totalClaims))
      firstPassRate == guardedPercentage(Int2Num(claimsWithoutQuery), Int2Num(totalClaims))
      collectionEfficiency == guardedPercentage(totalPaidAmount, totalApprovedAmount)
      rejectedClaimsAmount == rejectedClaimsAmountOf(processedRows, groupedRows)
      revenueLeakageRate == guardedPercentage(rejectedClaimsAmount, totalClaimValue)
      approvedUnpaidAmount == SumOf(SelectSeq(processedRows, ApprovedUnpaid), "Approved Amount")
      revenueStuckInQuery == SumOf(SelectSeq(processedRows, StuckInQuery), "Pkg Rate")
      averageClaimAmount ==
        IF totalClaims > 0
        THEN Int2Num(Round(RDiv(totalClaimValue, Int2Num(totalClaims))))
        ELSE Zero
      avgLengthOfStay == avgLengthOfStayOf(groupedRows)
      avgDaysToPayment == avgDaysToPaymentOf(groupedRows, avgLengthOfStay)
      admissionDates == admissionDatesOf(processedRows)
      minDate == IF Len(admissionDates) > 0
                 THEN minDateOf(admissionDates, admissionDates[1]) ELSE Null
      maxDate == IF Len(admissionDates) > 0
                 THEN maxDateOf(admissionDates, admissionDates[1]) ELSE Null
      highValueClaims == Len(SelectSeq(groupedRows, HighValue))
      highValueClaimsPercentage ==
        guardedPercentage(Int2Num(highValueClaims), Int2Num(totalClaims))
  IN  [totalClaims |-> Int2Num(totalClaims),
       paidClaims |-> Int2Num(paidClaims),
       approvedClaims |-> Int2Num(approvedClaims),
       rejectedClaims |-> Int2Num(rejectedClaims),
       pendingClaims |-> Int2Num(pendingClaims),
       totalClaimValue |-> totalClaimValue,
       totalApprovedAmount |-> totalApprovedAmount,
       totalPaidAmount |-> totalPaidAmount,
       averageClaimAmount |-> averageClaimAmount,
       rejectedClaimsAmount |-> rejectedClaimsAmount,
       approvedUnpaidAmount |-> approvedUnpaidAmount,
       revenueStuckInQuery |-> revenueStuckInQuery,
       denialRate |-> denialRate,
       queryIncidence |-> queryIncidence,
       firstPassRate |-> firstPassRate,
       collectionEfficiency |-> collectionEfficiency,
       revenueLeakageRate |-> revenueLeakageRate,
       highValueClaimsPercentage |-> highValueClaimsPercentage,
       avgLengthOfStay |-> avgLengthOfStay,
       avgDaysToPayment |-> avgDaysToPayment,
       claimsWithQuery |-> Int2Num(claimsWithQuery),
       claimsWithoutQuery |-> Int2Num(claimsWithoutQuery),
       minDate |-> minDate,
       maxDate |-> maxDate,
       healthScore |-> healthScoreOf(denialRate, collectionEfficiency, queryIncidence),
       monthsSpan |-> Int2Num(monthsSpanOf(minDate, maxDate))]

\* the TypeError of groupDataByTID leaves the function; otherwise the snapshot
calculateProposalMetrics(d) ==
  LET processed == preprocessMAAClaims(d)
      grouped == groupDataByTID(processed)
  IN  IF grouped = TypeError THEN TypeError
      ELSE snapshotOf(processed.items, grouped.items)

(* Inputs of the metrics specification: raw rows that differ in Status, in
   their amounts and in whether a query was raised. *)

MaxMetricsRows == 3

PaidHighValueRow ==
  Field("Patient Name", <<"A", "s", "h", "a">>)
    @@ Field("Hospital Name", <<"C", "i", "t", "y">>)
    @@ Field("Status", ClaimPaid)
    @@ Field("Pkg Rate", <<"1", ",", "0", "0", ",", "0", "0", "1">>)
    @@ Field("Approved Amount", <<"9", ",", "0", "0", "0">>)

RejectedRow ==
  Field("Patient Name", <<"A", "s", "h", "a">>)
    @@ Field("Hospital Name", <<"C", "i", "t", "y">>)
    @@ Field("Status", RejectedSupervisor)
    @@ Field("Pkg Rate", <<"1", "0">>)
    @@ Field("Approved Amount", <<"0">>)
    @@ Field("Query Raised", <<"2">>)

\* 'claim paid' in lower case, which includes('Claim Paid') does not match
LowerCasePaidRow ==
  Field("Patient Name", <<"A", "s", "h", "a">>)
    @@ Field("Hospital Name", <<"C", "i", "t", "y">>)
    @@ Field("Status", <<"c", "l", "a", "i", "m", " ", "p", "a", "i", "d">>)
    @@ Field("Pkg Rate", <<"2", "0">>)
    @@ Field("Approved Amount", <<"7">>)

PaidNothingRow ==
  Field("Patient Name", <<"A", "s", "h", "a">>)
    @@ Field("Hospital Name", <<"C", "i", "t", "y">>)
    @@ Field("Status", ClaimPaid)
    @@ Field("Pkg Rate", <<"0">>)
    @@ Field("Approved Amount", <<"0">>)

MetricsProfiles == {PaidHighValueRow, RejectedRow, LowerCasePaidRow, PaidNothingRow}

MetricsRows ==
  MetricsProfiles
    \cup {Field("TID", tid) @@ p : tid \in {<<"5">>, <<"3">>}, p \in MetricsProfiles}
    \cup {Field("TID", <<"t", "o", "S", "t", "r", "i", "n", "g">>) @@ RejectedRow}

InitMetrics ==
  /\ data \in {Arr(q) : q \in SeqsUpTo(MetricsRows, MaxMetricsRows)}
  /\ pc = "start"
  /\ validation = Unset
  /\ processedData = Unset
  /\ groupedData = Unset
  /\ metrics = Unset
  /\ roiProjections = Unset
  /\ result = Unset
  /\ ServicesUnset

\* calculateProposalMetrics(data), statement by statement: processedData and
\* groupedData are its locals (lines 172-173), metrics what it returns
CalculateMetrics ==
  /\ pc = "start"
  /\ processedData' = preprocessMAAClaims(data)
  /\ groupedData' = groupDataByTID(processedData')
  /\ metrics' = IF groupedData' = TypeError THEN TypeError
                ELSE snapshotOf(processedData'.items, groupedData'.items)
  /\ pc' = "measured"
  /\ UNCHANGED <<data, validation, roiProjections, result>>
  /\ UNCHANGED serviceVars

NextMetrics == CalculateMetrics

SpecMetrics == InitMetrics /\ [][NextMetrics]_vars

Measured == pc = "measured" /\ metrics # TypeError

\* the sum of the Approved Amount cells of the raw rows whose Status cell
\* contains 'Claim Paid'
RECURSIVE PaidApprovedSum(_)
PaidApprovedSum(rawRows) ==
  IF rawRows = <<>> THEN Zero
  ELSE LET row == rawRows[1]
           paid == /\ "Status" \in DOMAIN row
                   /\ Includes(row["Status"].s, ClaimPaid)
       IN  RAdd(IF paid THEN parseNumber(Get(row, "Approved Amount")) ELSE Zero,
                PaidApprovedSum(Tail(rawRows)))

\* C5: totalPaidAmount is the sum of Approved Amount over the rows, not the
\* Claims, whose Status contains 'Claim Paid' with this very capitalisation.
C5_TotalPaidAmountOverRows ==
  Measured => metrics.totalPaidAmount = PaidApprovedSum(data.items)

\* a Claim whose first row is rejected and whose second row is paid, and a
\* paid row without TID
C5_Witness ==
  /\ Measured
  /\ Len(data.items) = 3
  /\ data.items[1] = Field("TID", <<"5">>) @@ RejectedRow
  /\ data.items[2] = Field("TID", <<"5">>) @@ PaidHighValueRow
  /\ data.items[3] = PaidHighValueRow
  /\ metrics.paidClaims = Zero
  /\ metrics.totalPaidAmount = Int2Num(18000)

\* the sum of the Pkg Rate cells of the raw rows whose Status cell is exactly
\* one of the two rejected texts
RECURSIVE RejectedRateSum(_)
RejectedRateSum(rawRows) ==
  IF rawRows = <<>> THEN Zero
  ELSE LET row == rawRows[1]
           rejected == Get(row, "Status") \in
                         {Str(RejectedSupervisor), Str(RejectedAnalyser)}
       IN  RAdd(IF rejected THEN parseNumber(Get(row, "Pkg Rate")) ELSE Zero,
                RejectedRateSum(Tail(rawRows)))

\* C20: rejectedClaimsAmount is the sum of Pkg Rate over the normalized rows,
\* not the Claims, whose Status is exactly 'Claim Rejected (Supervisor)' or
\* 'Claim Rejected (Analyser)', whatever the Status of the Claim a row is
\* grouped into.
C20_RejectedAmountOverRows ==
  Measured => metrics.rejectedClaimsAmount = RejectedRateSum(data.items)

\* a Claim whose first row is paid and whose second row is rejected, and a
\* rejected row without TID: no Claim is rejected, two rows are
C20_Witness ==
  /\ Measured
  /\ Len(data.items) = 3
  /\ data.items[1] = Field("TID", <<"5">>) @@ PaidHighValueRow
  /\ data.items[2] = Field("TID", <<"5">>) @@ RejectedRow
  /\ data.items[3] = RejectedRow
  /\ metrics.totalClaims = Int2Num(1)
  /\ metrics.rejectedClaims = Zero
  /\ metrics.rejectedClaimsAmount = Int2Num(20)

\* rate is numer / denom x 100 when denom is positive, 0 when denom is 0, and
\* a number in either case
IsGuardedRate(rate, numer, denom) ==
  /\ IsNum(rate)
  /\ RLess(Zero, denom) => rate = RMul(RDiv(numer, denom), Int2Num(100))
  /\ denom = Zero => rate = Zero

HighValueCount ==
  Cardinality({i \in 1..Len(groupedData.items) :
                 RLess(Int2Num(100000), groupedData.items[i]["Pkg Rate"])})

\* C6: each of the six rates is numerator / denominator x 100 when its
\* denominator is positive and 0 when the denominator is 0, and none is NaN.
C6_RatesGuardedAgainstZero ==
  Measured =>
    /\ IsGuardedRate(metrics.denialRate, metrics.rejectedClaims, metrics.totalClaims)
    /\ IsGuardedRate(metrics.queryIncidence, metrics.claimsWithQuery, metrics.totalClaims)
    /\ IsGuardedRate(metrics.firstPassRate, metrics.claimsWithoutQuery, metrics.totalClaims)
    /\ IsGuardedRate(metrics.highValueClaimsPercentage, Int2Num(HighValueCount),
                     metrics.totalClaims)
    /\ IsGuardedRate(metrics.collectionEfficiency, metrics.totalPaidAmount,
                     metrics.totalApprovedAmount)
    /\ IsGuardedRate(metrics.revenueLeakageRate, metrics.rejectedClaimsAmount,
                     metrics.totalClaimValue)

\* rows but no Claims: a paid and a rejected row, both without TID
C6_Witness ==
  /\ Measured
  /\ data.items = <<PaidHighValueRow, RejectedRow>>
  /\ metrics.totalClaims = Zero
  /\ metrics.totalPaidAmount = Int2Num(9000)
  /\ metrics.totalApprovedAmount = Zero
  /\ metrics.rejectedClaimsAmount = Int2Num(10)
  /\ metrics.totalClaimValue = Zero
  /\ metrics.denialRate = Zero
  /\ metrics.queryIncidence = Zero
  /\ metrics.firstPassRate = Zero
  /\ metrics.highValueClaimsPercentage = Zero
  /\ metrics.collectionEfficiency = Zero
  /\ metrics.revenueLeakageRate = Zero

\* C7: healthScore is the lesser of 90 and (100 - denialRate) x 0.4 +
\* collectionEfficiency x 0.4 + (100 - queryIncidence) x 0.2, hence at most 90.
C7_HealthScoreCappedAt90 ==
  Measured =>
    LET weighted ==
          RAdd(RAdd(RMul(RSub(Int2Num(100), metrics.denialRate), Num(2, 5)),
                    RMul(metrics.collectionEfficiency, Num(2, 5))),
               RMul(RSub(Int2Num(100), metrics.queryIncidence), Num(1, 5)))
    IN  /\ metrics.healthScore =
             (IF RLess(Int2Num(90), weighted) THEN Int2Num(90) ELSE weighted)
        /\ ~RLess(Int2Num(90), metrics.healthScore)

\* no denial, everything approved is paid, no query: the sum is 100
C7_Witness ==
  /\ Measured
  /\ metrics.totalClaims = Int2Num(1)
  /\ metrics.denialRate = Zero
  /\ metrics.collectionEfficiency = Int2Num(100)
  /\ metrics.queryIncidence = Zero
  /\ metrics.healthScore = Int2Num(90)

(* Inputs of the status specification: raw rows that differ in TID and in
   Status, among them statuses in lower case, a status that names two states
   and a rejection that is neither of the two exact texts. *)

MaxStatusRows == 3

ClaimPending == <<"C", "l", "a", "i", "m", " ", "P", "e", "n", "d", "i", "n", "g">>

ClaimApproved == <<"C", "l", "a", "i", "m", " ", "A", "p", "p", "r", "o", "v", "e", "d">>

ApprovedPaymentPending ==
  <<"A", "p", "p", "r", "o", "v", "e", "d", ",", " ", "P", "a", "y", "m", "e", "n", "t",
    " ", "P", "e", "n", "d", "i", "n", "g">>

StatusTexts ==
  { ClaimPaid, <<"c", "l", "a", "i", "m", " ", "p", "a", "i", "d">>,
    ClaimPending, ClaimApproved, ApprovedPaymentPending,
    RejectedSupervisor, RejectedAnalyser,
    <<"C", "l", "a", "i", "m", " ", "R", "e", "j", "e", "c", "t", "e", "d">> }

StatusRow(tid, status) ==
  Field("TID", tid) @@ Field("Status", status) @@ Field("Pkg Rate", <<"1", "0">>)

StatusRows ==
  {StatusRow(<<"5">>, status) : status \in StatusTexts}
    \cup {StatusRow(<<"3">>, status) : status \in {ClaimPaid, ClaimPending, RejectedSupervisor}}
    \cup { Field("TID", <<"5">>) @@ Field("Pkg Rate", <<"1", "0">>),
           Field("Status", RejectedSupervisor) @@ Field("Pkg Rate", <<"1", "0">>) }

InitStatus ==
  /\ data \in {Arr(q) : q \in SeqsUpTo(StatusRows, MaxStatusRows)}
  /\ pc = "start"
  /\ validation = Unset
  /\ processedData = Unset
  /\ groupedData = Unset
  /\ metrics = Unset
  /\ roiProjections = Unset
  /\ result = Unset
  /\ ServicesUnset

SpecStatus == InitStatus /\ [][NextMetrics]_vars

\* the TIDs of the raw rows
ClaimTIDs ==
  {data.items[i]["TID"] : i \in {k \in 1..Len(data.items) : HasTID(data.items[k])}}

\* the Status cell of the first raw row that has the TID
StatusOfClaim(tid) == Get(RowsOf(data.items, tid)[1], "Status")

\* how many TIDs have a first row whose Status contains text
ClaimsContaining(text) ==
  Cardinality({tid \in ClaimTIDs :
                 /\ StatusOfClaim(tid) # Undefined
                 /\ Includes(StatusOfClaim(tid).s, text)})

\* C19: the counts are taken over Claims by the Status of each Claim's
\* first-seen row: totalClaims is the number of Claims; paidClaims,
\* approvedClaims and pendingClaims count the Claims whose Status contains
\* 'Claim Paid', 'Approved', 'Pending' in this very capitalisation;
\* rejectedClaims counts the Claims whose Status is exactly one of the two
\* rejected texts.  Later rows of a Claim change none of the counts.
C19_CountsByFirstSeenStatus ==
  Measured =>
    /\ metrics.totalClaims = Int2Num(Cardinality(ClaimTIDs))
    /\ metrics.paidClaims = Int2Num(ClaimsContaining(ClaimPaid))
    /\ metrics.approvedClaims =
         Int2Num(ClaimsContaining(<<"A", "p", "p", "r", "o", "v", "e", "d">>))
    /\ metrics.pendingClaims =
         Int2Num(ClaimsContaining(<<"P", "e", "n", "d", "i", "n", "g">>))
    /\ metrics.rejectedClaims =
         Int2Num(Cardinality({tid \in ClaimTIDs :
                                StatusOfClaim(tid) \in
                                  {Str(RejectedSupervisor), Str(RejectedAnalyser)}}))

\* a Claim whose first row is approved with payment pending and whose second
\* row is rejected, and a second Claim that is rejected
C19_Witness ==
  /\ Measured
  /\ data.items = << StatusRow(<<"5">>, ApprovedPaymentPending),
                     StatusRow(<<"5">>, RejectedAnalyser),
                     StatusRow(<<"3">>, RejectedSupervisor) >>
  /\ metrics.totalClaims = Int2Num(2)
  /\ metrics.paidClaims = Zero
  /\ metrics.approvedClaims = Int2Num(1)
  /\ metrics.pendingClaims = Int2Num(1)
  /\ metrics.rejectedClaims = Int2Num(1)

(* Inputs of the outstanding-revenue specification: raw rows that differ in
   TID and in Status, among them statuses in capitals, a status that is
   approved without a supervisor and one with a supervisor that is not
   approved. *)

MaxOutstandingRows == 3

ApprovedSupervisorCapitals ==
  <<"A", "P", "P", "R", "O", "V", "E", "D", " ", "(", "S", "U", "P", "E", "R", "V", "I",
    "S", "O", "R", ")">>

ClaimApprovedSupervisor ==
  <<"C", "l", "a", "i", "m", " ", "A", "p", "p", "r", "o", "v", "e", "d", " ", "(", "S",
    "u", "p", "e", "r", "v", "i", "s", "o", "r", ")">>

ClaimQuery == <<"C", "l", "a", "i", "m", " ", "Q", "u", "e", "r", "y">>

ClaimQueryRaisedCapitals ==
  <<"C", "L", "A", "I", "M", " ", "Q", "U", "E", "R", "Y", " ", "R", "A", "I", "S", "E", "D">>

QueryRaised == <<"Q", "u", "e", "r", "y", " ", "R", "a", "i", "s", "e", "d">>

OutstandingTexts ==
  { ApprovedSupervisorCapitals, ClaimApprovedSupervisor, ClaimApproved,
    RejectedSupervisor, ClaimQuery, ClaimQueryRaisedCapitals, QueryRaised, ClaimPaid }

OutstandingRow(status) ==
  Field("Status", status) @@ Field("Pkg Rate", <<"1", "0">>)
    @@ Field("Approved Amount", <<"7">>)

OutstandingRows ==
  {Field("TID", <<"5">>) @@ OutstandingRow(status) : status \in OutstandingTexts}
    \cup {OutstandingRow(status) :
            status \in {ApprovedSupervisorCapitals, ClaimQueryRaisedCapitals}}
    \cup { Field("TID", <<"3">>) @@ OutstandingRow(ClaimApprovedSupervisor),
           Field("TID", <<"3">>) @@ Field("Pkg Rate", <<"1", "0">>)
             @@ Field("Approved Amount", <<"7">>) }

InitOutstanding ==
  /\ data \in {Arr(q) : q \in SeqsUpTo(OutstandingRows, MaxOutstandingRows)}
  /\ pc = "start"
  /\ validation = Unset
  /\ processedData = Unset
  /\ groupedData = Unset
  /\ metrics = Unset
  /\ roiProjections = Unset
  /\ result = Unset
  /\ ServicesUnset

SpecOutstanding == InitOutstanding /\ [][NextMetrics]_vars

\* the lower-cased Status cell of a raw row contains text
LowerCasedContains(row, text) ==
  /\ "Status" \in DOMAIN row
  /\ Includes(toLowerCase(row["Status"].s), text)

IsApprovedBySupervisor(row) ==
  /\ LowerCasedContains(row, <<"a", "p", "p", "r", "o", "v", "e", "d">>)
  /\ LowerCasedContains(row, <<"s", "u", "p", "e", "r", "v", "i", "s", "o", "r">>)

IsInClaimQuery(row) ==
  LowerCasedContains(row, <<"c", "l", "a", "i", "m", " ", "q", "u", "e", "r", "y">>)

\* the sum of the parsed col cells of the raw rows
RECURSIVE CellSum(_, _)
CellSum(rawRows, col) ==
  IF rawRows = <<>> THEN Zero
  ELSE RAdd(parseNumber(Get(rawRows[1], col)), CellSum(Tail(rawRows), col))

\* C21: approvedUnpaidAmount is the sum of Approved Amount over the raw rows
\* whose lower-cased Status contains both 'approved' and 'supervisor';
\* revenueStuckInQuery is the sum of Pkg Rate over the raw rows whose
\* lower-cased Status contains 'claim query'; approvedClaims still counts only
\* the Claims whose Status contains 'Approved' as capitalised.
C21_OutstandingSumsIgnoreCase ==
  Measured =>
    /\ metrics.approvedUnpaidAmount =
         CellSum(SelectSeq(data.items, IsApprovedBySupervisor), "Approved Amount")
    /\ metrics.revenueStuckInQuery =
         CellSum(SelectSeq(data.items, IsInClaimQuery), "Pkg Rate")
    /\ metrics.approvedClaims =
         Int2Num(ClaimsContaining(<<"A", "p", "p", "r", "o", "v", "e", "d">>))

\* one Claim 'APPROVED (SUPERVISOR)' and a row 'CLAIM QUERY RAISED' without
\* TID: both are summed, no Claim counts as approved
C21_Witness ==
  /\ Measured
  /\ data.items = << Field("TID", <<"5">>) @@ OutstandingRow(ApprovedSupervisorCapitals),
                     OutstandingRow(ClaimQueryRaisedCapitals) >>
  /\ metrics.approvedUnpaidAmount = Int2Num(7)
  /\ metrics.revenueStuckInQuery = Int2Num(10)
  /\ metrics.totalClaims = Int2Num(1)
  /\ metrics.approvedClaims = Zero

(* Inputs of the payment-days specification: raw rows that differ in TID, in
   Days to Payment (absent, 3, 12 or -6) and in the dates of the stay: no
   dates, a stay of six hours and a stay of three days. *)

MaxPaymentRows == 2

PaymentDayTexts == {<<"3">>, <<"1", "2">>, <<"-", "6">>}

StayRows ==
  { Field("Status", ClaimPaid),
    Field("Status", ClaimPaid) @@ Field("Date of Admission", Feb16Evening)
      @@ Field("Date of Discharge", Feb17Midnight),
    Field("Status", ClaimPaid) @@ Field("Date of Admission", Feb17Midnight)
      @@ Field("Date of Discharge", Feb20) }

PaymentRows ==
  {Field("TID", tid) @@ r : tid \in {<<"5">>, <<"3">>},
                            r \in WithCell(StayRows, "Days to Payment", PaymentDayTexts)}

InitPayment ==
  /\ data \in {Arr(q) : q \in SeqsUpTo(PaymentRows, MaxPaymentRows)}
  /\ pc = "start"
  /\ validation = Unset
  /\ processedData = Unset
  /\ groupedData = Unset
  /\ metrics = Unset
  /\ roiProjections = Unset
  /\ result = Unset
  /\ ServicesUnset

SpecPayment == InitPayment /\ [][NextMetrics]_vars

\* the Claims whose Days to Payment is above 0
ClaimsWithPaymentDays ==
  LET Qualifies(claim) == RLess(Zero, claim["Days to Payment"])
  IN  SelectSeq(groupedData.items, Qualifies)

\* C24: avgDaysToPayment is the mean of Days to Payment over the Claims where
\* it is above 0; when there is no such Claim it is avgLengthOfStay, and 45
\* when avgLengthOfStay is zero; so it is above 0 for every input.
C24_AvgDaysToPaymentPositive ==
  Measured =>
    LET qualifying == ClaimsWithPaymentDays
        avg == metrics.avgDaysToPayment
    IN  /\ qualifying # <<>> =>
             RMul(avg, Int2Num(Len(qualifying))) = SumOf(qualifying, "Days to Payment")
        /\ (qualifying = <<>> /\ metrics.avgLengthOfStay # Zero) =>
             avg = metrics.avgLengthOfStay
        /\ (qualifying = <<>> /\ metrics.avgLengthOfStay = Zero) => avg = Int2Num(45)
        /\ RLess(Zero, avg)

\* a Claim paid after 12 days and a Claim with -6: the mean is taken over the
\* first alone
C24_Witness ==
  /\ Measured
  /\ Len(groupedData.items) = 2
  /\ groupedData.items[1]["Days to Payment"] = Int2Num(-6)
  /\ groupedData.items[2]["Days to Payment"] = Int2Num(12)
  /\ Len(ClaimsWithPaymentDays) = 1
  /\ metrics.avgDaysToPayment = Int2Num(12)
  /\ metrics.avgLengthOfStay = Zero

(* IEEE 754 binary64, the arithmetic of a JavaScript Number, for the sums and
   rates whose value depends on rounding.  A natural number is the sequence
   of its digits to the base LimbBase, most significant first; a Number that
   is not negative is sig x 2^exp with sig of SignificandBits bits, held in
   four digits, or Binary64Zero. *)

SignificandBits == 53

LimbBits == 14

LimbBase == 2^LimbBits

SignificandLimbs == 4

\* digit j of n counted from the least significant, which is digit 0
LimbAt(n, j) == IF j < 0 \/ j >= Len(n) THEN 0 ELSE n[Len(n) - j]

\* the digit of floor(n / 2^lo), lo of either sign
LimbFrom(n, lo) ==
  LET w == lo \div LimbBits
      t == lo % LimbBits
  IN  (LimbAt(n, w) \div 2^t) + (LimbAt(n, w + 1) % 2^t) * 2^(LimbBits - t)

\* the len lowest digits of floor(n x 2^s), s of either sign
Shifted(n, s, len) == [i \in 1..len |-> LimbFrom(n, (len - i) * LimbBits - s)]

\* without leading zero digits
StrippedLimbs(n) ==
  IF \A i \in 1..Len(n) : n[i] = 0 THEN <<>>
  ELSE LET first == CHOOSE i \in 1..Len(n) : n[i] # 0 /\ \A j \in 1..(i - 1) : n[j] = 0
       IN  SubSeq(n, first, Len(n))

\* the number of bits of n, n without leading zero digits
BitLength(n) ==
  IF n = <<>> THEN 0
  ELSE (Len(n) - 1) * LimbBits
         + CHOOSE k \in 1..LimbBits : 2^(k - 1) <= n[1] /\ n[1] < 2^k

\* the digits of the number whose digits, too wide or negative, are wide
RECURSIVE Carried(_, _)
Carried(wide, carry) ==
  IF wide = <<>>
  THEN (IF carry = 0 THEN <<>>
        ELSE Append(Carried(<<>>, carry \div LimbBase), carry % LimbBase))
  ELSE Append(Carried(SubSeq(wide, 1, Len(wide) - 1),
                      (wide[Len(wide)] + carry) \div LimbBase),
              (wide[Len(wide)] + carry) % LimbBase)

LimbsAdd(a, b) ==
  LET len == IF Len(a) < Len(b) THEN Len(b) ELSE Len(a)
  IN  StrippedLimbs(Carried([i \in 1..len |-> LimbAt(a, len - i) + LimbAt(b, len - i)], 0))

\* a - b, a >= b
LimbsSub(a, b) ==
  StrippedLimbs(Carried([i \in 1..Len(a) |-> LimbAt(a, Len(a) - i) - LimbAt(b, Len(a) - i)], 0))

\* a x t for a digit t
LimbsTimes(a, t) == StrippedLimbs(Carried([i \in 1..Len(a) |-> a[i] * t], 0))

\* the sum of a[i] x b[k - i] over the digits i..Len(a) - 1 of a
RECURSIVE ProductAt(_, _, _, _)
ProductAt(a, b, k, i) ==
  IF i >= Len(a) THEN 0
  ELSE LimbAt(a, i) * LimbAt(b, k - i) + ProductAt(a, b, k, i + 1)

\* a x b, a and b of at most four digits
LimbsMul(a, b) ==
  LET len == Len(a) + Len(b)
  IN  StrippedLimbs(Carried([i \in 1..len |-> ProductAt(a, b, len - i, 0)], 0))

\* a < b, a and b without leading zero digits
LimbsLess(a, b) ==
  \/ Len(a) < Len(b)
  \/ /\ Len(a) = Len(b)
     /\ \E i \in 1..Len(a) : a[i] < b[i] /\ \A j \in 1..(i - 1) : a[j] = b[j]

\* floor(r / d) for r < d x LimbBase, d of four digits the first of which is
\* at least LimbBase / 2: the estimate from the leading digits is at most 2
\* too large
QuotientDigit(r, d) ==
  LET estimate == (LimbAt(r, 4) * LimbBase + LimbAt(r, 3)) \div d[1]
      highest == IF estimate < LimbBase THEN estimate ELSE LimbBase - 1
  IN  CHOOSE t \in (IF highest < 3 THEN 0 ELSE highest - 3)..highest :
        /\ ~LimbsLess(r, LimbsTimes(d, t))
        /\ LimbsLess(r, LimbsTimes(d, t + 1))

\* the quotient and remainder of n by d, one digit of n at a time
RECURSIVE DivFrom(_, _, _, _, _)
DivFrom(n, d, i, quotient, remainder) ==
  IF i > Len(n) THEN [quotient |-> StrippedLimbs(quotient), remainder |-> remainder]
  ELSE LET r == StrippedLimbs(Append(remainder, n[i]))
           t == QuotientDigit(r, d)
       IN  DivFrom(n, d, i + 1, Append(quotient, t), LimbsSub(r, LimbsTimes(d, t)))

Binary64Zero == [t |-> "binary64", sig |-> <<>>, exp |-> 0]

\* round to nearest, ties to even: the Number nearest to n x 2^exp, or to a
\* value just above it when inexact; n without leading zero digits
roundBinary64(n, exp, inexact) ==
  LET bits == BitLength(n)
      drop == bits - SignificandBits
      kept == Shifted(n, -drop, SignificandLimbs)
      half == LimbFrom(n, drop - 1) % 2 = 1
      more == inexact \/ Shifted(Shifted(n, -(drop - 1), Len(n)), drop - 1, Len(n)) # n
      up == half /\ (more \/ kept[SignificandLimbs] % 2 = 1)
      rounded == IF up THEN LimbsAdd(kept, <<1>>) ELSE kept
  IN  IF bits = 0 THEN Binary64Zero
      ELSE IF drop <= 0
      THEN [t |-> "binary64", sig |-> kept, exp |-> exp + drop]
      ELSE IF BitLength(rounded) > SignificandBits
      THEN [t |-> "binary64", sig |-> Shifted(rounded, -1, SignificandLimbs),
            exp |-> exp + drop + 1]
      ELSE [t |-> "binary64", sig |-> rounded, exp |-> exp + drop]

\* the Number of a natural number below 2^31
Binary64OfNat(n) ==
  roundBinary64(StrippedLimbs(<<n \div (LimbBase * LimbBase),
                                (n \div LimbBase) % LimbBase, n % LimbBase>>), 0, FALSE)

\* x + y
Binary64Add(x, y) ==
  LET exp == IF x.exp < y.exp THEN x.exp ELSE y.exp
      len == SignificandLimbs + 1 + ((x.exp - exp) + (y.exp - exp)) \div LimbBits
  IN  IF x = Binary64Zero THEN y
      ELSE IF y = Binary64Zero THEN x
      ELSE roundBinary64(LimbsAdd(StrippedLimbs(Shifted(x.sig, x.exp - exp, len)),
                                  StrippedLimbs(Shifted(y.sig, y.exp - exp, len))),
                         exp, FALSE)

\* x * y
Binary64Mul(x, y) ==
  IF x = Binary64Zero \/ y = Binary64Zero THEN Binary64Zero
  ELSE roundBinary64(LimbsMul(x.sig, y.sig), x.exp + y.exp, FALSE)

\* x / y, y not zero: x.sig x 2^59 is divided by y.sig x 2^3, whose first
\* digit is at least LimbBase / 2; the quotient has at least 56 bits and the
\* remainder tells whether it is exact
Binary64Div(x, y) ==
  LET numerator == StrippedLimbs(Shifted(x.sig, 59, 2 * SignificandLimbs))
      denominator == Shifted(y.sig, 3, SignificandLimbs)
      division == DivFrom(numerator, denominator, 1, <<>>, <<>>)
  IN  IF x = Binary64Zero THEN Binary64Zero
      ELSE roundBinary64(division.quotient, x.exp - y.exp - 56,
                         division.remainder # <<>>)

\* x < y
Binary64Less(x, y) ==
  IF y = Binary64Zero THEN FALSE
  ELSE IF x = Binary64Zero THEN TRUE
  ELSE x.exp < y.exp \/ (x.exp = y.exp /\ LimbsLess(x.sig, y.sig))

\* the Number nearest to the value n/d, n >= 0, which is what parseFloat
\* gives for a decimal text of that value and / for two whole Numbers
Binary64Of(v) == Binary64Div(Binary64OfNat(v.n), Binary64OfNat(v.d))

(* The totals and rates of calculateProposalMetrics whose value depends on
   rounding, computed as the Numbers the program computes: every parsed cell
   is the Number nearest to its decimal value, and every + x / rounds. *)

\* values.reduce((sum, v) => sum + v, sum)
RECURSIVE sumOfNumbers(_, _)
sumOfNumbers(values, sum) ==
  IF values = <<>> THEN sum
  ELSE sumOfNumbers(Tail(values), Binary64Add(sum, values[1]))

\* the cells col of the rows as Numbers
cellsAsNumbers(rows, col) == [i \in 1..Len(rows) |-> Binary64Of(rows[i][col])]

\* lines 155-157: acc[tid][col], 0 at first, += row[col] for every row of
\* the claim in turn
claimAmountAsNumber(processedRows, claim, col) ==
  LET OfClaim(row) == Truthy(Get(row, "TID")) /\ Get(row, "TID") = claim["TID"]
  IN  sumOfNumbers(cellsAsNumbers(SelectSeq(processedRows, OfClaim), col), Binary64Zero)

\* denom > 0 ? (numer / denom) * 100 : 0
percentageAsNumber(numer, denom) ==
  IF Binary64Less(Binary64Zero, denom)
  THEN Binary64Mul(Binary64Div(numer, denom), Binary64OfNat(100))
  ELSE Binary64Zero

\* lines 176-213
numbersOf(processedRows, groupedRows) ==
  LET Paid(row) == StatusIncludes(row, ClaimPaid)
      Queried(row) == RLess(Zero, row["Query Raised"])
      Unqueried(row) == row["Query Raised"] = Zero
      totalClaims == Len(groupedRows)
      claimsWithQuery == Len(SelectSeq(groupedRows, Queried))
      claimsWithoutQuery == Len(SelectSeq(groupedRows, Unqueried))
      totalApprovedAmount ==
        sumOfNumbers([i \in 1..totalClaims |->
                       claimAmountAsNumber(processedRows, groupedRows[i], "Approved Amount")],
                     Binary64Zero)
      totalPaidAmount ==
        sumOfNumbers(cellsAsNumbers(SelectSeq(processedRows, Paid), "Approved Amount"),
                     Binary64Zero)
  IN  [totalClaims |-> totalClaims,
       claimsWithQuery |-> claimsWithQuery,
       claimsWithoutQuery |-> claimsWithoutQuery,
       totalApprovedAmount |-> totalApprovedAmount,
       totalPaidAmount |-> totalPaidAmount,
       queryIncidence |->
         percentageAsNumber(Binary64OfNat(claimsWithQuery), Binary64OfNat(totalClaims)),
       firstPassRate |->
         percentageAsNumber(Binary64OfNat(claimsWithoutQuery), Binary64OfNat(totalClaims)),
       collectionEfficiency |-> percentageAsNumber(totalPaidAmount, totalApprovedAmount)]

(* Inputs of the rounding specification: paid rows of three claims and one
   without TID, with approved amounts of 0.1 and 0.4 and with or without a
   query. *)

MaxNumberRows == 3

NumberRow(approved) ==
  Field("Status", ClaimPaid) @@ Field("Pkg Rate", <<"1">>)
    @@ Field("Approved Amount", approved)

TenthRow == NumberRow(<<"0", ".", "1">>)

QueriedRow == Field("Query Raised", <<"2">>) @@ NumberRow(<<"0", ".", "4">>)

NumberRows ==
  { Field("TID", <<"1">>) @@ TenthRow, Field("TID", <<"1">>) @@ QueriedRow,
    Field("TID", <<"2">>) @@ TenthRow, Field("TID", <<"3">>) @@ TenthRow,
    TenthRow }

InitNumbers ==
  /\ data \in {Arr(q) : q \in SeqsUpTo(NumberRows, MaxNumberRows)}
  /\ pc = "start"
  /\ validation = Unset
  /\ processedData = Unset
  /\ groupedData = Unset
  /\ metrics = Unset
  /\ roiProjections = Unset
  /\ result = Unset
  /\ ServicesUnset

\* calculateProposalMetrics(data) with its totals and rates as Numbers
CalculateNumbers ==
  /\ pc = "start"
  /\ processedData' = preprocessMAAClaims(data)
  /\ groupedData' = groupDataByTID(processedData')
  /\ metrics' = IF groupedData' = TypeError THEN TypeError
                ELSE numbersOf(processedData'.items, groupedData'.items)
  /\ pc' = "measured"
  /\ UNCHANGED <<data, validation, roiProjections, result>>
  /\ UNCHANGED serviceVars

NextNumbers == CalculateNumbers

SpecNumbers == InitNumbers /\ [][NextNumbers]_vars

\* the sum, as Numbers, of Actual Paid Amount over the Claims
PaidOverClaims ==
  sumOfNumbers([i \in 1..Len(groupedData.items) |->
                 claimAmountAsNumber(processedData.items, groupedData.items[i],
                                     "Actual Paid Amount")],
               Binary64Zero)

\* the sum, as Numbers, of Approved Amount over the paid rows without TID
PaidWithoutTID ==
  LET Unkeyed(row) == ~HasTID(row) /\ row["Actual Paid Amount"] # Zero
  IN  sumOfNumbers(cellsAsNumbers(SelectSeq(processedData.items, Unkeyed),
                                  "Approved Amount"),
                   Binary64Zero)

EveryRowHasTID == \A i \in 1..Len(data.items) : HasTID(data.items[i])

\* C25: totalPaidAmount, taken over rows, equals the sum of Actual Paid Amount
\* over the Claims plus the Approved Amount of the paid rows without TID; so
\* when every row has a TID (the amounts here are not negative) totalPaidAmount
\* is at most totalApprovedAmount and collectionEfficiency at most 100.
C25_PaidTotalsCoincide ==
  Measured =>
    /\ metrics.totalPaidAmount = Binary64Add(PaidOverClaims, PaidWithoutTID)
    /\ EveryRowHasTID =>
         /\ metrics.totalPaidAmount = PaidOverClaims
         /\ ~Binary64Less(metrics.totalApprovedAmount, metrics.totalPaidAmount)
         /\ ~Binary64Less(Binary64OfNat(100), metrics.collectionEfficiency)

\* C26: every Claim is counted in exactly one of claimsWithQuery and
\* claimsWithoutQuery, so the two counts add up to totalClaims, and
\* queryIncidence + firstPassRate = 100 whenever there is a Claim.
C26_QueryRatesAddUpTo100 ==
  Measured =>
    /\ \A i \in 1..Len(groupedData.items) :
         ~RLess(groupedData.items[i]["Query Raised"], Zero)
    /\ metrics.claimsWithQuery + metrics.claimsWithoutQuery = metrics.totalClaims
    /\ metrics.totalClaims > 0 =>
         Binary64Add(metrics.queryIncidence, metrics.firstPassRate) = Binary64OfNat(100)

(* calculateROIProjections, dataProcessor.js 345-409 *)

\* slip: a ?? b, which keeps a zero
OrElseNullish(a, b) == IF a = Undefined \/ a = Null THEN b ELSE a

\* a || b
OrElse(a, b) == IF Truthy(a) THEN a ELSE b

\* Math.ceil; NaN stays NaN
Ceil(x) == IF IsNum(x) THEN Int2Num(-((-x.n) \div x.d)) ELSE x

\* lines 385-387
paybackMonthsOf(expectedTotal, roiMultiple) ==
  LET investmentAmount == RDiv(expectedTotal, roiMultiple)
      monthlyBenefit == RDiv(expectedTotal, Int2Num(12))
  IN  Ceil(RDiv(investmentAmount, monthlyBenefit))

\* slip: the expected scenario weighs the two smaller streams like the recovery
expectedTotalEvenWeights(potentialRecovery, workingCapitalBenefit, processEfficiencySavings) ==
  RAdd(RAdd(RMul(potentialRecovery, Num(8, 10)),
            RMul(workingCapitalBenefit, Num(8, 10))),
       RMul(processEfficiencySavings, Num(8, 10)))

\* line 380
expectedTotalOf(potentialRecovery, workingCapitalBenefit, processEfficiencySavings) ==
  RAdd(RAdd(RMul(potentialRecovery, Num(8, 10)),
            RMul(workingCapitalBenefit, Num(7, 10))),
       RMul(processEfficiencySavings, Num(7, 10)))

\* slip: the recovery is the reduction to the target rate whatever the rate
potentialRecoveryUnguarded(safeRejectedAmount, safeDenialRate) ==
  LET targetDenialRate == Int2Num(5)
  IN  RMul(safeRejectedAmount,
           RDiv(RSub(safeDenialRate, targetDenialRate), safeDenialRate))

\* lines 361-364
potentialRecoveryOf(safeRejectedAmount, safeDenialRate) ==
  LET targetDenialRate == Int2Num(5)
  IN  IF RLess(targetDenialRate, safeDenialRate)
      THEN RMul(safeRejectedAmount,
                RDiv(RSub(safeDenialRate, targetDenialRate), safeDenialRate))
      ELSE RMul(safeRejectedAmount, Num(5, 10))

\* slip: the days saved are not held at zero from below
daysSavedUnclamped(safeAvgDays) ==
  LET targetDaysToPayment == Int2Num(30)
  IN  RSub(safeAvgDays, targetDaysToPayment)

\* lines 367-368
daysSavedOf(safeAvgDays) ==
  LET targetDaysToPayment == Int2Num(30)
  IN  RMax(Zero, RSub(safeAvgDays, targetDaysToPayment))

\* lines 355-358: the minimum values the calculation runs on
safeInputsOf(m) ==
  LET safeClaimValue == OrElse(m.totalClaimValue, Int2Num(5000000))
  IN  [safeClaimValue |-> safeClaimValue,
       safeRejectedAmount |->
         OrElse(m.rejectedClaimsAmount, RMul(safeClaimValue, Num(15, 100))),
       safeDenialRate |-> OrElse(m.denialRate, Int2Num(15)),
       safeAvgDays |-> OrElse(m.avgDaysToPayment, Int2Num(45))]

calculateROIProjections(m) ==
  LET safe == safeInputsOf(m)
      safeClaimValue == safe.safeClaimValue
      safeRejectedAmount == safe.safeRejectedAmount
      safeDenialRate == safe.safeDenialRate
      safeAvgDays == safe.safeAvgDays
      potentialRecovery == potentialRecoveryOf(safeRejectedAmount, safeDenialRate)
      daysSaved == daysSavedOf(safeAvgDays)
      workingCapitalBenefit ==
        RMul(RMul(safeClaimValue, RDiv(daysSaved, Int2Num(365))), Num(12, 100))
      processEfficiencySavings == RMul(safeClaimValue, Num(2, 100))
      conservativeRecovery == RMul(potentialRecovery, Num(6, 10))
      expectedRecovery == RMul(potentialRecovery, Num(8, 10))
      optimisticRecovery == potentialRecovery
      conservativeTotal ==
        RAdd(RAdd(conservativeRecovery, RMul(workingCapitalBenefit, Num(5, 10))),
             RMul(processEfficiencySavings, Num(5, 10)))
      expectedTotal ==
        expectedTotalOf(potentialRecovery, workingCapitalBenefit, processEfficiencySavings)
      optimisticTotal ==
        RAdd(RAdd(optimisticRecovery, workingCapitalBenefit), processEfficiencySavings)
      roiMultiple == Num(35, 10)
  IN  [denialPreventionConservative |-> conservativeRecovery,
       denialPreventionExpected |-> expectedRecovery,
       denialPreventionOptimistic |-> optimisticRecovery,
       collectionsConservative |-> RMul(workingCapitalBenefit, Num(5, 10)),
       collectionsExpected |-> RMul(workingCapitalBenefit, Num(7, 10)),
       collectionsOptimistic |-> workingCapitalBenefit,
       efficiencyConservative |-> RMul(processEfficiencySavings, Num(5, 10)),
       efficiencyExpected |-> RMul(processEfficiencySavings, Num(7, 10)),
       efficiencyOptimistic |-> processEfficiencySavings,
       totalBenefitConservative |-> conservativeTotal,
       totalBenefitExpected |-> expectedTotal,
       totalBenefitOptimistic |-> optimisticTotal,
       paybackPeriod |-> paybackMonthsOf(expectedTotal, roiMultiple),
       roiMultiple |-> roiMultiple]

(* Inputs of the projection specification: the five fields the function reads
   off a snapshot, each absent, zero or one of a few amounts; the amounts are
   taken at every scale up to MaxScale. *)

MaxScale == 2

ClaimValues == {Undefined, Zero} \cup {Int2Num(v * k) : v \in {-360, 1000}, k \in 1..MaxScale}

RejectedAmounts == {Undefined, Zero} \cup {Int2Num(v * k) : v \in {7, 150}, k \in 1..MaxScale}

DenialRates == {Undefined, Zero, Int2Num(4), Int2Num(5), Int2Num(50), Int2Num(100)}

PaymentDays == {Undefined, Zero, Int2Num(4), Int2Num(30), Int2Num(45), Int2Num(103)}

Snapshots ==
  [totalClaimValue : ClaimValues, rejectedClaimsAmount : RejectedAmounts,
   denialRate : DenialRates, firstPassRate : {Int2Num(100)},
   avgDaysToPayment : PaymentDays]

InitROI ==
  /\ metrics \in Snapshots
  /\ pc = "start"
  /\ data = Unset
  /\ validation = Unset
  /\ processedData = Unset
  /\ groupedData = Unset
  /\ roiProjections = Unset
  /\ result = Unset
  /\ ServicesUnset

\* calculateROIProjections(metrics)
CalculateROI ==
  /\ pc = "start"
  /\ roiProjections' = calculateROIProjections(metrics)
  /\ pc' = "projected"
  /\ UNCHANGED <<data, validation, processedData, groupedData, metrics, result>>
  /\ UNCHANGED serviceVars

NextROI == CalculateROI

SpecROI == InitROI /\ [][NextROI]_vars

Projected == pc = "projected"

\* C11: whatever the snapshot, the payback period is 4 months and the ROI
\* multiple 3.5.
C11_PaybackIsFourMonths ==
  Projected =>
    /\ roiProjections.paybackPeriod = Int2Num(4)
    /\ roiProjections.roiMultiple = Num(7, 2)

\* C12: each scenario total is the weighted sum of recovery, working-capital
\* benefit and efficiency savings (weights 0.6/0.5/0.5, 0.8/0.7/0.7, 1/1/1) and
\* the sum of the three amounts returned for that scenario.
C12_TotalsAreWeightedSums ==
  Projected =>
    LET r == roiProjections
        recovery == r.denialPreventionOptimistic
        capital == r.collectionsOptimistic
        savings == r.efficiencyOptimistic
        Weighted(a, b, c) ==
          RAdd(RAdd(RMul(recovery, a), RMul(capital, b)), RMul(savings, c))
    IN  /\ r.totalBenefitConservative = Weighted(Num(3, 5), Num(1, 2), Num(1, 2))
        /\ r.totalBenefitExpected = Weighted(Num(4, 5), Num(7, 10), Num(7, 10))
        /\ r.totalBenefitOptimistic = Weighted(Int2Num(1), Int2Num(1), Int2Num(1))
        /\ r.totalBenefitConservative =
             RAdd(RAdd(r.denialPreventionConservative, r.collectionsConservative),
                  r.efficiencyConservative)
        /\ r.totalBenefitExpected =
             RAdd(RAdd(r.denialPreventionExpected, r.collectionsExpected),
                  r.efficiencyExpected)
        /\ r.totalBenefitOptimistic =
             RAdd(RAdd(r.denialPreventionOptimistic, r.collectionsOptimistic),
                  r.efficiencyOptimistic)

\* claim value 1000, rejected 150 at a denial rate of 50, paid after 103 days:
\* recovery 135, working-capital benefit 24, efficiency savings 20
C12_Witness ==
  /\ Projected
  /\ metrics.totalClaimValue = Int2Num(1000)
  /\ metrics.rejectedClaimsAmount = Int2Num(150)
  /\ metrics.denialRate = Int2Num(50)
  /\ metrics.avgDaysToPayment = Int2Num(103)
  /\ roiProjections.denialPreventionOptimistic = Int2Num(135)
  /\ roiProjections.collectionsOptimistic = Int2Num(24)
  /\ roiProjections.efficiencyOptimistic = Int2Num(20)
  /\ roiProjections.totalBenefitConservative = Int2Num(103)
  /\ roiProjections.totalBenefitExpected = Num(1388, 10)
  /\ roiProjections.totalBenefitOptimistic = Int2Num(179)

\* the input when it is present and not zero, the default otherwise
InputOrDefault(input, default) ==
  IF input = Undefined \/ input = Zero THEN default ELSE input

\* C22: each of the four values the calculation runs on is the snapshot's
\* field when that is present and not zero, and its default otherwise:
\* 5,000,000 for the claim value, 15% of the claim value so obtained for the
\* rejected amount, 15 for the denial rate, 45 for the days to payment.
C22_DefaultsExactlyForZeroOrAbsent ==
  Projected =>
    LET safe == safeInputsOf(metrics)
        claimValue == InputOrDefault(metrics.totalClaimValue, Int2Num(5000000))
    IN  /\ safe.safeClaimValue = claimValue
        /\ safe.safeRejectedAmount =
             InputOrDefault(metrics.rejectedClaimsAmount, RMul(claimValue, Num(15, 100)))
        /\ safe.safeDenialRate = InputOrDefault(metrics.denialRate, Int2Num(15))
        /\ safe.safeAvgDays = InputOrDefault(metrics.avgDaysToPayment, Int2Num(45))
        /\ roiProjections.efficiencyOptimistic = RMul(claimValue, Num(2, 100))

\* no claim value, a rejected amount and a denial rate of zero, no days to
\* payment: all four defaults, seen in what is returned
C22_Witness ==
  /\ Projected
  /\ metrics.totalClaimValue = Undefined
  /\ metrics.rejectedClaimsAmount = Zero
  /\ metrics.denialRate = Zero
  /\ metrics.avgDaysToPayment = Undefined
  /\ safeInputsOf(metrics) =
       [safeClaimValue |-> Int2Num(5000000), safeRejectedAmount |-> Int2Num(750000),
        safeDenialRate |-> Int2Num(15), safeAvgDays |-> Int2Num(45)]
  /\ roiProjections.efficiencyOptimistic = Int2Num(100000)
  /\ roiProjections.denialPreventionOptimistic = Int2Num(500000)
  /\ roiProjections.collectionsOptimistic = Num(1800000, 73)

\* C23: the recovery returned as denialPreventionOptimistic is the rejected
\* amount used times (rate - 5) / rate when the denial rate used is greater
\* than 5, and half the rejected amount used when it is 5 or less; it is a
\* number in either case, the division being by a rate greater than 5.
C23_RecoveryByDenialRate ==
  Projected =>
    LET safe == safeInputsOf(metrics)
        rate == safe.safeDenialRate
        recovery == roiProjections.denialPreventionOptimistic
    IN  /\ IsNum(recovery)
        /\ RLess(Int2Num(5), rate) =>
             /\ rate # Zero
             /\ RMul(recovery, rate) = RMul(safe.safeRejectedAmount, RSub(rate, Int2Num(5)))
        /\ ~RLess(Int2Num(5), rate) =>
             recovery = RMul(safe.safeRejectedAmount, Num(1, 2))

\* a denial rate of 4, below the target: half of the rejected 150 is recovered
C23_Witness ==
  /\ Projected
  /\ metrics.rejectedClaimsAmount = Int2Num(150)
  /\ metrics.denialRate = Int2Num(4)
  /\ roiProjections.denialPreventionOptimistic = Int2Num(75)

\* a field of the snapshot is absent or not negative
IsAbsentOrNonNegative(v) == v = Undefined \/ (IsNum(v) /\ ~RLess(v, Zero))

\* 0 <= low <= mid <= high
IsOrderedFromZero(low, mid, high) ==
  /\ IsNum(low) /\ IsNum(mid) /\ IsNum(high)
  /\ ~RLess(low, Zero)
  /\ ~RLess(mid, low)
  /\ ~RLess(high, mid)

\* C27: for a snapshot whose claim value, rejected amount, denial rate and
\* days to payment are not negative, the amounts returned are not negative and
\* conservative <= expected <= optimistic holds for denial prevention,
\* collections, efficiency and the totals; the optimistic denial prevention
\* is at most the rejected amount used.
C27_ScenariosOrderedAndNonNegative ==
  (/\ Projected
   /\ IsAbsentOrNonNegative(metrics.totalClaimValue)
   /\ IsAbsentOrNonNegative(metrics.rejectedClaimsAmount)
   /\ IsAbsentOrNonNegative(metrics.denialRate)
   /\ IsAbsentOrNonNegative(metrics.avgDaysToPayment)) =>
    LET r == roiProjections
    IN  /\ IsOrderedFromZero(r.denialPreventionConservative, r.denialPreventionExpected,
                             r.denialPreventionOptimistic)
        /\ IsOrderedFromZero(r.collectionsConservative, r.collectionsExpected,
                             r.collectionsOptimistic)
        /\ IsOrderedFromZero(r.efficiencyConservative, r.efficiencyExpected,
                             r.efficiencyOptimistic)
        /\ IsOrderedFromZero(r.totalBenefitConservative, r.totalBenefitExpected,
                             r.totalBenefitOptimistic)
        /\ ~RLess(safeInputsOf(metrics).safeRejectedAmount, r.denialPreventionOptimistic)

\* payment after 4 days, faster than the target of 30: nothing is saved on
\* collections, and the other amounts are strictly ordered
C27_Witness ==
  /\ Projected
  /\ metrics.totalClaimValue = Int2Num(1000)
  /\ metrics.rejectedClaimsAmount = Int2Num(150)
  /\ metrics.denialRate = Int2Num(100)
  /\ metrics.avgDaysToPayment = Int2Num(4)
  /\ roiProjections.collectionsConservative = Zero
  /\ roiProjections.collectionsOptimistic = Zero
  /\ roiProjections.denialPreventionConservative = Num(171, 2)
  /\ roiProjections.denialPreventionExpected = Int2Num(114)
  /\ roiProjections.denialPreventionOptimistic = Num(285, 2)
  /\ roiProjections.totalBenefitConservative = Num(191, 2)
  /\ roiProjections.totalBenefitOptimistic = Num(325, 2)

(* processCSVForProposal, dataProcessor.js 412-613: one invocation, from the
   rows read off the uploaded sheet to the object it resolves to.  data holds
   what xlsx.utils.sheet_to_json yields for the file, or the failure of
   reading it. *)

\* fs.readFile or xlsx.read threw, with the message the environment gave
ReadError == [t |-> "error", message |-> "ENOENT"]

\* lines 607-611: the catch block's return value
failure(message) == [success |-> FALSE, error |-> message]

\* slip: the claim-value total is given a default in place as well
withDefaultsAlsoClaimValue(m) ==
  [m EXCEPT !.avgDaysToPayment = OrElse(@, Int2Num(45)),
            !.averageClaimAmount = OrElse(@, Int2Num(50000)),
            !.totalClaimValue = OrElse(@, Int2Num(5000000))]

\* lines 427-432: the two fields overwritten in place when falsy
withDefaults(m) ==
  [m EXCEPT !.avgDaysToPayment = OrElse(@, Int2Num(45)),
            !.averageClaimAmount = OrElse(@, Int2Num(50000))]

\* lines 489-598, the fields of templateData that are computed from metrics
\* and roiProjections and are not formatted text
templateDataOf(m, roi) ==
  [showDenialMetric |-> ~RLess(m.denialRate, Int2Num(3)),
   showFirstPassMetric |-> ~RLess(Int2Num(70), m.firstPassRate),
   showQueryMetric |-> TRUE,
   roiMultiple |-> roi.roiMultiple,
   daysReduction |-> RMax(Zero, RSub(m.avgDaysToPayment, Int2Num(30))),
   paybackPeriod |-> roi.paybackPeriod]

MaxPipelineRows == 2

Sheets == {ReadError} \cup {Arr(q) : q \in SeqsUpTo(MetricsRows, MaxPipelineRows)}

InitPipeline ==
  /\ data \in Sheets
  /\ pc = "start"
  /\ validation = Unset
  /\ processedData = Unset
  /\ groupedData = Unset
  /\ metrics = Unset
  /\ roiProjections = Unset
  /\ result = Unset
  /\ ServicesUnset

\* line 415 with parseCSVFile, lines 39-62: a failed read and an empty sheet
\* are both thrown as 'Failed to parse CSV file: ...' and caught at line 607
ParseCSVFile ==
  /\ pc = "start"
  /\ IF data = ReadError
     THEN /\ result' = failure("Failed to parse CSV file: " \o data.message)
          /\ pc' = "returned"
     ELSE IF Len(data.items) = 0
     THEN /\ result' = failure("Failed to parse CSV file: No data found in the file")
          /\ pc' = "returned"
     ELSE /\ result' = result
          /\ pc' = "parsed"
  /\ UNCHANGED <<data, validation, processedData, groupedData, metrics, roiProjections>>
  /\ UNCHANGED serviceVars

\* slip: the validation result is computed and not acted upon
ValidateDataWithoutAbort ==
  /\ pc = "parsed"
  /\ validation' = validateMAAClaims(data)
  /\ pc' = "validated"
  /\ UNCHANGED <<data, processedData, groupedData, metrics, roiProjections, result>>
  /\ UNCHANGED serviceVars

\* lines 418-421
ValidateData ==
  /\ pc = "parsed"
  /\ validation' = validateMAAClaims(data)
  /\ IF validation'.valid
     THEN /\ pc' = "validated"
          /\ result' = result
     ELSE /\ pc' = "returned"
          /\ result' = failure(validation'.error)
  /\ UNCHANGED <<data, processedData, groupedData, metrics, roiProjections>>
  /\ UNCHANGED serviceVars

\* line 424; the TypeError of groupDataByTID is caught at line 607
MeasureData ==
  /\ pc = "validated"
  /\ processedData' = preprocessMAAClaims(data)
  /\ groupedData' = groupDataByTID(processedData')
  /\ IF groupedData' = TypeError
     THEN /\ metrics' = metrics
          /\ result' = failure("Cannot read properties of undefined (reading 'push')")
          /\ pc' = "returned"
     ELSE /\ metrics' = snapshotOf(processedData'.items, groupedData'.items)
          /\ result' = result
          /\ pc' = "measured"
  /\ UNCHANGED <<data, validation, roiProjections>>
  /\ UNCHANGED serviceVars

\* lines 427-432
DefaultMetrics ==
  /\ pc = "measured"
  /\ metrics' = withDefaults(metrics)
  /\ pc' = "defaulted"
  /\ UNCHANGED <<data, validation, processedData, groupedData, roiProjections, result>>
  /\ UNCHANGED serviceVars

\* line 435
ProjectROI ==
  /\ pc = "defaulted"
  /\ roiProjections' = calculateROIProjections(metrics)
  /\ pc' = "projected"
  /\ UNCHANGED <<data, validation, processedData, groupedData, metrics, result>>
  /\ UNCHANGED serviceVars

\* lines 489-605
ReturnProposal ==
  /\ pc = "projected"
  /\ result' = [success |-> TRUE, metrics |-> metrics, roiProjections |-> roiProjections,
                templateData |-> templateDataOf(metrics, roiProjections)]
  /\ pc' = "returned"
  /\ UNCHANGED <<data, validation, processedData, groupedData, metrics, roiProjections>>
  /\ UNCHANGED serviceVars

NextPipeline ==
  \/ ParseCSVFile
  \/ ValidateData
  \/ MeasureData
  \/ DefaultMetrics
  \/ ProjectROI
  \/ ReturnProposal

SpecPipeline == InitPipeline /\ [][NextPipeline]_vars

(* What the claims about one invocation speak of *)

\* the snapshot calculateProposalMetrics computes for the sheet
Computed == calculateProposalMetrics(data)

\* the positions at which the snapshot has been handed on
HandedOn == pc \in {"defaulted", "projected"} \/ (pc = "returned" /\ result.success)

\* the sheet was read and is empty, or its first row lacks a required column
IsEmptySheet == data # ReadError /\ Len(data.items) = 0
LacksColumns == data # ReadError /\ Len(data.items) > 0
                  /\ ~(RequiredSet \subseteq DOMAIN data.items[1])

C14_ValidationMessageReturned ==
  (pc = "returned" /\ (IsEmptySheet \/ LacksColumns)) =>
    /\ result = [success |-> FALSE, error |-> validateMAAClaims(data).error]
    /\ metrics = Unset
    /\ roiProjections = Unset

\* C14, amended: a first row lacking required columns ends the invocation
\* with success = false and the validation message; an empty sheet ends it
\* with the message of the failed read, before validation; neither computes
\* metrics or projections, and the invocation returns rather than throws.
C14_FailureReturnedNotThrown ==
  (pc = "returned" /\ (IsEmptySheet \/ LacksColumns)) =>
    /\ LacksColumns =>
         result = [success |-> FALSE,
                   error |-> "Missing required columns: " \o MissingList(data.items[1])]
    /\ IsEmptySheet =>
         /\ result = [success |-> FALSE,
                      error |-> "Failed to parse CSV file: No data found in the file"]
         /\ validation = Unset
    /\ processedData = Unset
    /\ groupedData = Unset
    /\ metrics = Unset
    /\ roiProjections = Unset

\* a sheet whose only row has no TID cell
C14_Witness ==
  /\ pc = "returned"
  /\ LacksColumns
  /\ data.items = <<RejectedRow>>
  /\ validation = [valid |-> FALSE, error |-> "Missing required columns: TID"]
  /\ result = [success |-> FALSE, error |-> "Missing required columns: TID"]
  /\ metrics = Unset

(* Normalization of rows of text, under the normalization specification *)

NumericColumns == {"Pkg Rate", "Approved Amount", "Query Raised", "Days to Payment"}

DateColumns == {"Date of Admission", "Date of Discharge", "Payment Date"}

IsEmptyCell(row, col) == col \notin DOMAIN row

\* the cell col of row holds text without any digit
HoldsNoDigit(row, col) ==
  col \in DOMAIN row /\ \A i \in 1..Len(row[col].s) : row[col].s[i] \notin DigitChars

\* C15: normalization returns, without raising, one record per input row in
\* input order; every numeric field is a number, 0 where the cell's text
\* holds no digit (and, but for the derived Days to Payment, where the cell
\* is empty); every date field is a date or null, null where the cell is
\* empty or its text holds no digit; the other cells are carried over.
C15_NormalizationIsTotal ==
  pc = "preprocessed" =>
    /\ processedData.t = "array"
    /\ Len(processedData.items) = Len(data.items)
    /\ \A i \in 1..Len(data.items) :
         LET row == data.items[i]
             processedRow == processedData.items[i]
         IN  /\ DOMAIN processedRow = DOMAIN row \cup ProcessedColumns
             /\ \A c \in DOMAIN row \ ProcessedColumns : processedRow[c] = row[c]
             /\ \A c \in NumericColumns \cup {"Actual Paid Amount"} : IsNum(processedRow[c])
             /\ \A c \in NumericColumns : HoldsNoDigit(row, c) => processedRow[c] = Zero
             /\ \A c \in NumericColumns \ {"Days to Payment"} :
                  IsEmptyCell(row, c) => processedRow[c] = Zero
             /\ \A c \in DateColumns : processedRow[c] = Null \/ IsDate(processedRow[c])
             /\ \A c \in DateColumns :
                  IsEmptyCell(row, c) \/ HoldsNoDigit(row, c) => processedRow[c] = Null

\* a row with 'abc' for its days and 'n/a' for its discharge date, followed by
\* a row whose discharge date parses
C15_Witness ==
  /\ pc = "preprocessed"
  /\ Len(data.items) = 2
  /\ Get(data.items[1], "Days to Payment") = Str(<<"a", "b", "c">>)
  /\ Get(data.items[1], "Date of Discharge") = Str(NotADate)
  /\ Get(data.items[2], "Date of Discharge") = Str(Feb17Midnight)
  /\ processedData.items[1]["Days to Payment"] = Zero
  /\ processedData.items[1]["Date of Discharge"] = Null
  /\ IsDate(processedData.items[2]["Date of Discharge"])

(* Inputs of the number-parsing specification: an absent cell, and every text
   of up to MaxNumberLength characters over a small alphabet of digits,
   separators, a letter and the rupee sign, besides the sheet's own amounts. *)

MaxNumberLength == 3

NumberAlphabet == {"0", "1", "5", ".", "-", ",", "a", "₹"}

RupeeAmount == <<"₹", "1", ",", "2", "3", ",", "4", "5", "6", ".", "0", "0">>

NumberInputs ==
  {Undefined, Null}
    \cup {Str(text) : text \in SeqsUpTo(NumberAlphabet, MaxNumberLength)}
    \cup {Str(RupeeAmount), Str(<<"a", "b", "c">>)}

InitParseNumber ==
  /\ data \in NumberInputs
  /\ pc = "start"
  /\ validation = Unset
  /\ processedData = Unset
  /\ groupedData = Unset
  /\ metrics = Unset
  /\ roiProjections = Unset
  /\ result = Unset
  /\ ServicesUnset

\* parseNumber(data)
ParseNumber ==
  /\ pc = "start"
  /\ result' = parseNumber(data)
  /\ pc' = "returned"
  /\ UNCHANGED <<data, validation, processedData, groupedData, metrics, roiProjections>>
  /\ UNCHANGED serviceVars

NextParseNumber == ParseNumber

SpecParseNumber == InitParseNumber /\ [][NextParseNumber]_vars

\* text is a decimal number: an optional leading minus sign, then digits with
\* at most one point among them, at least one digit
IsDecimal(text) ==
  /\ text # <<>>
  /\ LET body == IF text[1] = "-" THEN Tail(text) ELSE text
     IN  /\ \A i \in 1..Len(body) : body[i] \in DigitChars \cup {"."}
         /\ Cardinality({i \in 1..Len(body) : body[i] = "."}) <= 1
         /\ \E i \in 1..Len(body) : body[i] \in DigitChars

\* the number a decimal text denotes: its digits read as one integer, divided
\* by ten for each digit behind the point
DecimalValue(text) ==
  LET IsDigit(c) == c \in DigitChars
      digits == SelectSeq(text, IsDigit)
      behind == IF \E i \in 1..Len(text) : text[i] = "."
                THEN Len(text) - (CHOOSE i \in 1..Len(text) : text[i] = ".")
                ELSE 0
      whole == DigitsValue(digits, 1, Len(digits))
  IN  Num(IF text[1] = "-" THEN -whole ELSE whole, Pow10(behind))

\* what is left of text without the characters outside [0-9.-]
Remainder(text) ==
  LET Kept(c) == c \in DigitChars \/ c = "." \/ c = "-"
  IN  SelectSeq(text, Kept)

\* the longest decimal number the remainder starts with, 0 when it starts
\* with none
LeadingDecimal(text) ==
  LET rest == Remainder(text)
      lengths == {k \in 1..Len(rest) : IsDecimal(SubSeq(rest, 1, k))}
  IN  IF lengths = {} THEN Zero
      ELSE DecimalValue(SubSeq(rest, 1, CHOOSE k \in lengths : \A j \in lengths : j <= k))

\* C16: parseNumber returns a number for every input: 0 for an absent or
\* empty one, otherwise the decimal number that what is left of the text,
\* once every character outside [0-9.-] is removed, starts with, and 0 when
\* there is none; so the rupee amount gives 123456, '' gives 0, 'abc' gives 0.
C16_ParseNumberIsTotal ==
  pc = "returned" =>
    /\ IsNum(result)
    /\ ~IsStr(data) => result = Zero
    /\ IsStr(data) => result = LeadingDecimal(data.s)
    /\ data = Str(RupeeAmount) => result = Int2Num(123456)
    /\ data = Str(<<>>) => result = Zero
    /\ data = Str(<<"a", "b", "c">>) => result = Zero

C16_Witness ==
  /\ pc = "returned"
  /\ data = Str(RupeeAmount)
  /\ result = Int2Num(123456)

(* Writes to the caller's objects.  The map callback of preprocessMAAClaims
   assigns to processedRow (line 95) and the reduce callback of
   groupDataByTID to acc[tid] (line 136); both are made by an object spread.
   An object here is a value together with whether it is the very object it
   was made from, which is what decides where an assignment lands. *)

\* slip: the object itself is taken in place of a copy of it
sameObject(row) == [object |-> row, shared |-> TRUE]

\* { ...row }: a new object with the own properties of row
copyOf(row) == [object |-> row, shared |-> FALSE]

\* row once written has been assigned to target: row is rewritten only when
\* target is the same object
rowAfterWrites(row, target, written) == IF target.shared THEN written ELSE row

\* data as preprocessMAAClaims leaves it, lines 94-125, processed being the
\* array it returns
dataAfterPreprocess(d, processed) ==
  Arr([i \in 1..Len(d.items) |->
        rowAfterWrites(d.items[i], copyOf(d.items[i]), processed.items[i])])

\* the rows given to groupDataByTID as it leaves them, lines 130-164: the row
\* a claim is seeded from is the only one an assignment could reach
dataAfterGroup(d, grouped) ==
  IF grouped = TypeError THEN d
  ELSE Arr([i \in 1..Len(d.items) |->
         LET row == d.items[i]
             seeds == Truthy(Get(row, "TID"))
                        /\ \A j \in 1..(i - 1) : Get(d.items[j], "TID") # row["TID"]
             claim == CHOOSE c \in {grouped.items[k] : k \in 1..Len(grouped.items)} :
                        c["TID"] = row["TID"]
         IN  IF seeds THEN rowAfterWrites(row, copyOf(row), claim) ELSE row])

(* Two calls of calculateProposalMetrics on the same array, one after the
   other: metrics holds what the first returns, result what the second. *)

MaxPureRows == 2

InitPure ==
  /\ data \in {Arr(q) : q \in SeqsUpTo(MetricsRows, MaxPureRows)}
  /\ pc = "start"
  /\ validation = Unset
  /\ processedData = Unset
  /\ groupedData = Unset
  /\ metrics = Unset
  /\ roiProjections = Unset
  /\ result = Unset
  /\ ServicesUnset

\* calculateProposalMetrics(data), lines 170-342, together with what the call
\* leaves in the caller's array; the first call's return value is kept in
\* metrics, the second's in result
Call ==
  /\ pc \in {"start", "called"}
  /\ processedData' = preprocessMAAClaims(data)
  /\ groupedData' = groupDataByTID(processedData')
  /\ \E processedRows \in {dataAfterGroup(processedData', groupedData').items} :
       \E returned \in {IF groupedData' = TypeError THEN TypeError
                        ELSE snapshotOf(processedRows, groupedData'.items)} :
         IF pc = "start"
         THEN metrics' = returned /\ result' = result /\ pc' = "called"
         ELSE result' = returned /\ metrics' = metrics /\ pc' = "calledAgain"
  /\ data' = dataAfterPreprocess(data, processedData')
  /\ UNCHANGED <<validation, roiProjections>>
  /\ UNCHANGED serviceVars

NextPure == Call

SpecPure == InitPure /\ [][NextPure]_vars

MaxCalls == 3

Calls == 1..MaxCalls

\* the browser of the n-th launch
Browser(n) == [t |-> "browser", id |-> n]

\* a call that has not been made yet
IdleCall == [op |-> "idle", at |-> "idle", browser |-> Null, used |-> "none"]

InitBrowser ==
  /\ browserInstance = Null
  /\ browsers = <<>>
  /\ calls = [c \in Calls |-> IdleCall]
  /\ files = Unset
  /\ requests = Unset
  /\ pool = Unset
  /\ data = Unset
  /\ pc = "start"
  /\ validation = Unset
  /\ processedData = Unset
  /\ groupedData = Unset
  /\ metrics = Unset
  /\ roiProjections = Unset
  /\ result = Unset

\* lines 72-78 with getBrowser, lines 13-15 and 27: the call runs up to its
\* first await, either of puppeteer.launch or of the browser it found
GenerateProposalPDF(c) ==
  /\ calls[c].op = "idle"
  /\ calls' = [calls EXCEPT ![c] =
                 IF browserInstance = Null
                 THEN [op |-> "generateProposalPDF", at |-> "launching",
                       browser |-> Null, used |-> "none"]
                 ELSE [op |-> "generateProposalPDF", at |-> "gotBrowser",
                       browser |-> browserInstance, used |-> "none"]]
  /\ UNCHANGED <<browserInstance, browsers, files, requests, pool>>
  /\ UNCHANGED processorVars

\* lines 15-27: the launch is done, its browser is assigned and returned
Launched(c) ==
  /\ calls[c].at = "launching"
  /\ browsers' = Append(browsers, "open")
  /\ browserInstance' = Browser(Len(browsers'))
  /\ calls' = [calls EXCEPT ![c].at = "gotBrowser", ![c].browser = browserInstance']
  /\ UNCHANGED <<files, requests, pool>>
  /\ UNCHANGED processorVars

\* what becomes of a use of browser b: it works on an open browser, throws on
\* a closed one, and either of the two on one that is being closed
OutcomesOn(b) ==
  CASE browsers[b.id] = "open" -> {"done"}
    [] browsers[b.id] = "closing" -> {"done", "threw"}
    [] OTHER -> {"threw"}

\* line 79, browser.newPage(); a throw goes through lines 140-148
NewPage(c) ==
  /\ calls[c].at = "gotBrowser"
  /\ \E outcome \in OutcomesOn(calls[c].browser) :
       calls' = [calls EXCEPT ![c].used = browsers[calls[c].browser.id],
                              ![c].at = IF outcome = "done" THEN "rendering" ELSE "threw"]
  /\ UNCHANGED <<browserInstance, browsers, files, requests, pool>>
  /\ UNCHANGED processorVars

\* lines 83-148: the page is filled, printed and closed
RenderPage(c) ==
  /\ calls[c].at = "rendering"
  /\ \E outcome \in OutcomesOn(calls[c].browser) :
       calls' = [calls EXCEPT ![c].used = browsers[calls[c].browser.id],
                              ![c].at = IF outcome = "done" THEN "returned" ELSE "threw"]
  /\ UNCHANGED <<browserInstance, browsers, files, requests, pool>>
  /\ UNCHANGED processorVars

\* lines 31-33: closeBrowser up to its await of browserInstance.close()
CloseBrowser(c) ==
  /\ calls[c].op = "idle"
  /\ IF browserInstance # Null
     THEN /\ browsers' = [browsers EXCEPT ![browserInstance.id] =
                            IF @ = "open" THEN "closing" ELSE @]
          /\ calls' = [calls EXCEPT ![c] =
                         [op |-> "closeBrowser", at |-> "closing",
                          browser |-> browserInstance, used |-> "none"]]
     ELSE /\ browsers' = browsers
          /\ calls' = [calls EXCEPT ![c] =
                         [op |-> "closeBrowser", at |-> "returned",
                          browser |-> Null, used |-> "none"]]
  /\ UNCHANGED <<browserInstance, files, requests, pool>>
  /\ UNCHANGED processorVars

\* lines 33-34: the browser is closed and browserInstance is set to null
BrowserClosed(c) ==
  /\ calls[c].at = "closing"
  /\ browsers' = [browsers EXCEPT ![calls[c].browser.id] = "closed"]
  /\ browserInstance' = Null
  /\ calls' = [calls EXCEPT ![c].at = "returned"]
  /\ UNCHANGED <<files, requests, pool>>
  /\ UNCHANGED processorVars

NextBrowser ==
  \E c \in Calls :
    \/ GenerateProposalPDF(c)
    \/ Launched(c)
    \/ NewPage(c)
    \/ RenderPage(c)
    \/ CloseBrowser(c)
    \/ BrowserClosed(c)

SpecBrowser == InitBrowser /\ [][NextBrowser]_vars

\* the calls that are waiting for puppeteer.launch
Launching == {c \in Calls : calls[c].at = "launching"}

\* C28: in every interleaving of generateProposalPDF and closeBrowser calls
\* at most one launch is under way, every launched browser that is still open
\* is the one browserInstance refers to, and no call uses a browser that
\* closeBrowser has closed.
C28_BrowserIsSingleton ==
  /\ Cardinality(Launching) <= 1
  /\ \A b \in 1..Len(browsers) : browsers[b] = "open" => browserInstance = Browser(b)
  /\ \A c \in Calls : calls[c].used # "closed"

(* POST /generate, part_001 50-163. multer has stored the upload of a request
   that carries a file before the handler runs; the handler is modelled from
   one await to the next, and several requests may be under way. *)

MaxRequests == 2

Requests == 1..MaxRequests

\* req.file.path and pdfResult.path of request r
Upload(r) == <<"uploads", r>>
Pdf(r) == <<"generated", r>>

\* res.status(status).json(...) or, with status 200, res.send(...)
Response(status) == [t |-> "response", status |-> status]

HospitalNames == {Undefined, Str(<<>>), Str(<<"C", "i", "t", "y">>)}

\* a request that has arrived: at is the await the handler stands at,
\* unlinks the number of calls of fs.unlink(uploadedFilePath), res the status
\* of the response once it is sent
Arrived(hasFile, hospitalName) ==
  [file |-> hasFile, hospitalName |-> hospitalName, at |-> "arrived",
   uploadedFilePath |-> Null, unlinks |-> 0, res |-> Null]

InitGenerate ==
  /\ requests \in [Requests -> {Arrived(f, h) : f \in BOOLEAN, h \in HospitalNames}]
  /\ files = {Upload(r) : r \in {q \in Requests : requests[q].file}}
  /\ browserInstance = Unset
  /\ browsers = Unset
  /\ calls = Unset
  /\ pool = Unset
  /\ data = Unset
  /\ pc = "start"
  /\ validation = Unset
  /\ processedData = Unset
  /\ groupedData = Unset
  /\ metrics = Unset
  /\ roiProjections = Unset
  /\ result = Unset

\* lines 51-102: up to the await of processCSVForProposal
Handle(r) ==
  /\ requests[r].at = "arrived"
  /\ requests' = [requests EXCEPT ![r] =
        IF ~requests[r].file
        THEN [@ EXCEPT !.at = "responded", !.res = Response(400)]
        ELSE IF ~Truthy(requests[r].hospitalName)
        THEN [@ EXCEPT !.uploadedFilePath = Upload(r), !.at = "responded", !.res = Response(400)]
        ELSE [@ EXCEPT !.uploadedFilePath = Upload(r), !.at = "processing"]]
  /\ UNCHANGED <<browserInstance, browsers, calls, files, pool>>
  /\ UNCHANGED processorVars

\* lines 94-114: processCSVForProposal has returned, with success or without
Processed(r) ==
  /\ requests[r].at = "processing"
  /\ \E success \in BOOLEAN :
       requests' = [requests EXCEPT ![r].at = IF success THEN "generating" ELSE "caught"]
  /\ UNCHANGED <<browserInstance, browsers, calls, files, pool>>
  /\ UNCHANGED processorVars

\* lines 114-121: generateProposal has returned; on success the PDF is on disk
Generated(r) ==
  /\ requests[r].at = "generating"
  /\ \E success \in BOOLEAN :
       /\ requests' = [requests EXCEPT ![r].at = IF success THEN "reading" ELSE "caught"]
       /\ files' = IF success THEN files \cup {Pdf(r)} ELSE files
  /\ UNCHANGED <<browserInstance, browsers, calls, pool>>
  /\ UNCHANGED processorVars

\* lines 121-124: fs.readFile has read the PDF, or has thrown
ReadPdf(r) ==
  /\ requests[r].at = "reading"
  /\ \E read \in BOOLEAN :
       requests' = [requests EXCEPT ![r].at = IF read THEN "unlinking" ELSE "caught"]
  /\ UNCHANGED <<browserInstance, browsers, calls, files, pool>>
  /\ UNCHANGED processorVars

\* lines 124-143: fs.unlink has removed the upload and the PDF is sent, or it
\* has thrown
Unlinked(r) ==
  /\ requests[r].at = "unlinking"
  /\ \E removed \in BOOLEAN :
       IF removed
       THEN /\ files' = files \ {requests[r].uploadedFilePath}
            /\ requests' = [requests EXCEPT ![r].unlinks = @ + 1,
                                             ![r].uploadedFilePath = Null,
                                             ![r].at = "sent", ![r].res = Response(200)]
       ELSE /\ files' = files
            /\ requests' = [requests EXCEPT ![r].unlinks = @ + 1, ![r].at = "caught"]
  /\ UNCHANGED <<browserInstance, browsers, calls, pool>>
  /\ UNCHANGED processorVars

\* lines 137-143: five seconds after the response the PDF is removed
CleanUpPdf(r) ==
  /\ requests[r].at = "sent"
  /\ files' = files \ {Pdf(r)}
  /\ requests' = [requests EXCEPT ![r].at = "responded"]
  /\ UNCHANGED <<browserInstance, browsers, calls, pool>>
  /\ UNCHANGED processorVars

\* lines 145-162: the catch block unlinks the upload, whatever comes of it,
\* and answers 500
Caught(r) ==
  /\ requests[r].at = "caught"
  /\ \E removed \in BOOLEAN :
       files' = IF removed THEN files \ {requests[r].uploadedFilePath} ELSE files
  /\ requests' = [requests EXCEPT ![r].unlinks = @ + 1,
                                   ![r].at = "responded", ![r].res = Response(500)]
  /\ UNCHANGED <<browserInstance, browsers, calls, pool>>
  /\ UNCHANGED processorVars

NextGenerate ==
  \E r \in Requests :
    \/ Handle(r)
    \/ Processed(r)
    \/ Generated(r)
    \/ ReadPdf(r)
    \/ Unlinked(r)
    \/ CleanUpPdf(r)
    \/ Caught(r)

SpecGenerate == InitGenerate /\ [][NextGenerate]_vars

\* C29: whenever the handler has responded to a request that uploaded a file
\* (400, 500 or 200), the upload is gone from the disk or its deletion has
\* been attempted.
C29_UploadDeletedOnEveryResponse ==
  \A r \in Requests :
    (requests[r].file /\ requests[r].res # Null) =>
      (Upload(r) \notin files \/ requests[r].unlinks > 0)

(* The user-management routes, part_002 232-265, 268-342 and 410-444, with
   the queries of models/User.js. req.params.id is text; the routes read it
   with parseInt and the database reads it as an integer on its own. *)

MaxUsers == 2

UserIds == 1..MaxUsers

\* the value of a digit of radix up to 16, or -1
DigitOf(c) ==
  CASE c \in DigitChars -> DigitVal(c)
    [] c \in {"a", "A"} -> 10
    [] c \in {"b", "B"} -> 11
    [] c \in {"c", "C"} -> 12
    [] c \in {"d", "D"} -> 13
    [] c \in {"e", "E"} -> 14
    [] c \in {"f", "F"} -> 15
    [] OTHER -> -1

IsDigitOf(c, radix) == DigitOf(c) >= 0 /\ DigitOf(c) < radix

\* the length of the longest prefix of text made of digits of the radix
RECURSIVE DigitsLength(_, _)
DigitsLength(text, radix) ==
  IF text = <<>> \/ ~IsDigitOf(text[1], radix) THEN 0
  ELSE 1 + DigitsLength(Tail(text), radix)

\* the value of the digits text[1..len] in the radix
RECURSIVE ValueInRadix(_, _, _)
ValueInRadix(text, len, radix) ==
  IF len = 0 THEN 0
  ELSE ValueInRadix(text, len - 1, radix) * radix + DigitOf(text[len])

RECURSIVE WithoutLeadingSpace(_)
WithoutLeadingSpace(text) ==
  IF text # <<>> /\ text[1] = " " THEN WithoutLeadingSpace(Tail(text)) ELSE text

\* parseInt(text): leading white space and a sign are skipped, 0x or 0X
\* selects radix 16, and the digits up to the first other character count;
\* NaN when there is none
parseInt(text) ==
  LET trimmed == WithoutLeadingSpace(text)
      signed == trimmed # <<>> /\ trimmed[1] \in {"+", "-"}
      unsigned == IF signed THEN Tail(trimmed) ELSE trimmed
      hex == Len(unsigned) >= 2 /\ unsigned[1] = "0" /\ unsigned[2] \in {"x", "X"}
      digits == IF hex THEN Tail(Tail(unsigned)) ELSE unsigned
      radix == IF hex THEN 16 ELSE 10
      len == DigitsLength(digits, radix)
      value == ValueInRadix(digits, len, radix)
  IN  IF len = 0 THEN NaN
      ELSE Int2Num(IF signed /\ trimmed[1] = "-" THEN -value ELSE value)

\* error 22P02 of the database, invalid input syntax for type integer
InvalidText == [t |-> "error", code |-> "22P02"]

\* The integer the database reads in the text of a parameter compared with
\* users.id. The whole text must be a number: decimal digits, and in servers
\* that accept integers written with a prefix also 0x, 0o and 0b followed by
\* digits of radix 16, 8 and 2.
IntegerInputs == {"decimal", "prefixed"}

integerInput(text, accepted) ==
  LET prefixed == /\ accepted = "prefixed"
                  /\ Len(text) > 2
                  /\ text[1] = "0"
                  /\ text[2] \in {"x", "X", "o", "O", "b", "B"}
      digits == IF prefixed THEN Tail(Tail(text)) ELSE text
      radix == IF ~prefixed THEN 10
               ELSE IF text[2] \in {"x", "X"} THEN 16
               ELSE IF text[2] \in {"o", "O"} THEN 8
               ELSE 2
      len == DigitsLength(digits, radix)
  IN  IF len = 0 \/ len # Len(digits) THEN InvalidText
      ELSE Int2Num(ValueInRadix(digits, len, radix))

\* the row of the users table whose id is key, or null
RowOf(users, key) ==
  IF IsNum(key) /\ key.d = 1 /\ key.n \in DOMAIN users THEN users[key.n] ELSE Null

\* what a handler leaves behind: its response and the users table
Outcome(status, users) == [res |-> Response(status), users |-> users]

\* PUT /users/:id/status, lines 232-265, with User.updateUserStatus,
\* User.js 83-91
putUserStatus(users, accepted, user, id, isActive) ==
  IF isActive.t # "boolean" THEN Outcome(400, users)
  ELSE IF parseInt(id) = user.id /\ ~isActive.b THEN Outcome(400, users)
  ELSE LET key == integerInput(id, accepted)
       IN  IF key = InvalidText THEN Outcome(500, users)
           ELSE IF RowOf(users, key) = Null THEN Outcome(200, users)
           ELSE Outcome(200, [users EXCEPT ![key.n].is_active = isActive.b])

ValidRoles == {Str(<<"a", "d", "m", "i", "n">>),
               Str(<<"e", "x", "e", "c", "u", "t", "i", "v", "e">>),
               Str(<<"s", "u", "p", "e", "r", "_", "a", "d", "m", "i", "n">>)}

SuperAdmin == Str(<<"s", "u", "p", "e", "r", "_", "a", "d", "m", "i", "n">>)

\* PUT /users/:id, lines 268-342, with User.updateUser, User.js 106-148;
\* taken is whether the e-mail of the body belongs to another row
putUser(users, accepted, user, id, body, taken) ==
  IF ~Truthy(body.email) /\ ~Truthy(body.role) THEN Outcome(400, users)
  ELSE IF Truthy(body.role) /\ body.role \notin ValidRoles THEN Outcome(400, users)
  ELSE IF body.role = SuperAdmin /\ user.role # SuperAdmin THEN Outcome(403, users)
  ELSE IF parseInt(id) = user.id /\ Truthy(body.role) THEN Outcome(400, users)
  ELSE LET key == integerInput(id, accepted)
       IN  IF key = InvalidText THEN Outcome(500, users)
           ELSE IF RowOf(users, key) = Null THEN Outcome(500, users)
           ELSE IF Truthy(body.email) /\ taken THEN Outcome(409, users)
           ELSE IF Truthy(body.role)
           THEN Outcome(200, [users EXCEPT ![key.n].role = body.role])
           ELSE Outcome(200, users)

\* DELETE /users/:id, lines 410-444, with User.findById, User.js 16-25, and
\* User.deleteUser, User.js 150-159
deleteUser(users, accepted, user, id) ==
  IF parseInt(id) = user.id THEN Outcome(400, users)
  ELSE LET key == integerInput(id, accepted)
           found == RowOf(users, key)
       IN  IF key = InvalidText THEN Outcome(500, users)
           ELSE IF found = Null \/ ~found.is_active THEN Outcome(404, users)
           ELSE Outcome(200, [users EXCEPT ![key.n] = Null])

\* the rows of the users table
UserRow(role, isActive) == [role |-> role, is_active |-> isActive]

UserRows == {UserRow(r, a) : r \in {SuperAdmin, Str(<<"a", "d", "m", "i", "n">>)},
                             a \in BOOLEAN}

IdTexts == {<<"1">>, <<"2">>, <<"3">>, <<"0", "o", "1">>, <<"0", "x", "2">>, <<"1", "a">>}

Bool(b) == [t |-> "boolean", b |-> b]

IsActiveValues == {Bool(TRUE), Bool(FALSE), Str(<<"n", "o">>)}

Bodies == {[email |-> e, role |-> r] :
             e \in {Undefined, Str(<<"n", "@", "x">>)},
             r \in {Undefined, Str(<<"a", "d", "m", "i", "n">>), Str(<<"o", "w", "n", "e", "r">>)}}

\* the users who pass authenticateToken and requireSuperAdmin: req.user is
\* the row of an active super admin with its id
Authenticated(users) ==
  {[id |-> Int2Num(u), role |-> users[u].role] :
     u \in {v \in UserIds : users[v] # Null /\ users[v].role = SuperAdmin /\ users[v].is_active}}

InitUsers ==
  /\ pool \in {[users |-> users, integerInput |-> accepted] :
                 users \in [UserIds -> UserRows], accepted \in IntegerInputs}
  /\ requests = <<>>
  /\ browserInstance = Unset
  /\ browsers = Unset
  /\ calls = Unset
  /\ files = Unset
  /\ data = Unset
  /\ pc = "start"
  /\ validation = Unset
  /\ processedData = Unset
  /\ groupedData = Unset
  /\ metrics = Unset
  /\ roiProjections = Unset
  /\ result = Unset

\* the request that was handled last, with the table it found and its response
Handled(route, user, id, body, outcome) ==
  <<[route |-> route, user |-> user, id |-> id, body |-> body,
     usersBefore |-> pool.users, res |-> outcome.res]>>

PutUserStatus ==
  /\ \E user \in Authenticated(pool.users), id \in IdTexts, isActive \in IsActiveValues :
       \E outcome \in {putUserStatus(pool.users, pool.integerInput, user, id, isActive)} :
         /\ pool' = [pool EXCEPT !.users = outcome.users]
         /\ requests' = Handled("PUT /users/:id/status", user, id,
                                 [isActive |-> isActive], outcome)
  /\ UNCHANGED <<browserInstance, browsers, calls, files>>
  /\ UNCHANGED processorVars

PutUser ==
  /\ \E user \in Authenticated(pool.users), id \in IdTexts, body \in Bodies,
        taken \in BOOLEAN :
       \E outcome \in {putUser(pool.users, pool.integerInput, user, id, body, taken)} :
         /\ pool' = [pool EXCEPT !.users = outcome.users]
         /\ requests' = Handled("PUT /users/:id", user, id, body, outcome)
  /\ UNCHANGED <<browserInstance, browsers, calls, files>>
  /\ UNCHANGED processorVars

DeleteUser ==
  /\ \E user \in Authenticated(pool.users), id \in IdTexts :
       \E outcome \in {deleteUser(pool.users, pool.integerInput, user, id)} :
         /\ pool' = [pool EXCEPT !.users = outcome.users]
         /\ requests' = Handled("DELETE /users/:id", user, id, Undefined, outcome)
  /\ UNCHANGED <<browserInstance, browsers, calls, files>>
  /\ UNCHANGED processorVars

NextUsers == PutUserStatus \/ PutUser \/ DeleteUser

SpecUsers == InitUsers /\ [][NextUsers]_vars

\* the request is aimed at the account of the super admin who sent it
IsOwnAccount(request) ==
  integerInput(request.id, pool.integerInput) = request.user.id

\* the request deactivates, changes the role of, or deletes its target
IsSelfHarming(request) ==
  \/ request.route = "PUT /users/:id/status" /\ request.body.isActive = Bool(FALSE)
  \/ request.route = "PUT /users/:id" /\ Truthy(request.body.role)
  \/ request.route = "DELETE /users/:id"

\* C30: a request by which a super admin would deactivate, change the role
\* of, or delete their own account is answered with 400 and leaves the users
\* table as it was.
C30_NoSelfModification ==
  \A i \in 1..Len(requests) :
    (IsOwnAccount(requests[i]) /\ IsSelfHarming(requests[i])) =>
      /\ requests[i].res = Response(400)
      /\ pool.users = requests[i].usersBefore

====
